---------------------------- MODULE Spec2Model ----------------------------
(***************************************************************************)
(* Model of the Doravaru backend: the trade-idea pipeline of main.py       *)
(* (_parse_trade_response followed by validate_trade_idea), the batch      *)
(* endpoint batch_analysis, TechnicalAnalyzer (analyze_trend with its       *)
(* indicators, generate_signals and determine_trend), the portfolio       *)
(* report RiskManagementEngine.generate_risk_report and its                *)
(* calculate_optimal_position_size, and AngelOneService (login with TOTP   *)
(* retries, get_live_market_data and get_multiple_ltp).                    *)
(*                                                                         *)
(* Numbers.  The Python code computes on floats.  Here prices, portfolio   *)
(* values and percentages are integers (a price unit is whatever the feed  *)
(* uses) and every quotient the code compares is compared exactly, by      *)
(* cross-multiplication.  A value the code rounds is rounded as the code   *)
(* rounds it (round(x, 2) -> hundredths, int(x) -> truncation to zero).    *)
(***************************************************************************)
EXTENDS Integers, Sequences, FiniteSets, TLC

\* Python's None.  Every optional value of the model is a record, so that it
\* can be compared with None.
None == [none |-> TRUE]

Abs(x) == IF x < 0 THEN -x ELSE x

Min(a, b) == IF a < b THEN a ELSE b

\* n1/d1 < n2/d2 for d1 # 0 and d2 > 0 (the sign of d1 flips the product).
RatLt(n1, d1, n2, d2) == IF d1 > 0 THEN n1 * d2 < n2 * d1 ELSE n1 * d2 > n2 * d1

\* n1/d1 > n2/d2 for d1 # 0 and d2 > 0.
RatGt(n1, d1, n2, d2) == IF d1 > 0 THEN n1 * d2 > n2 * d1 ELSE n1 * d2 < n2 * d1

\* Python's int(a / b): the quotient truncated toward zero (b # 0).
IntTrunc(a, b) ==
    LET q == Abs(a) \div Abs(b)
    IN  IF (a < 0) = (b < 0) THEN q ELSE -q

\* Python's round(num / den, 2) for num >= 0, den > 0, in hundredths.  On an
\* exact tie Python rounds the double nearest to num/den, which lies on one
\* side of the tie or, when the tie is a double, goes to the even hundredth
\* as here; the input sets below hold no quotient that is an exact tie.
Round2(num, den) ==
    LET q == (100 * num) \div den
        r == (100 * num) % den
    IN  IF 2 * r < den THEN q
        ELSE IF 2 * r > den THEN q + 1
        ELSE IF q % 2 = 0 THEN q ELSE q + 1

VARIABLES
    \* --- POST /api/generate-trade-idea/{symbol} ---
    trade_data,     \* the LLM's JSON answer: entry, stop_loss, targets, ...
    risk_profile,   \* the request's UserRiskProfile
    trade_idea,     \* None, or the TradeIdea built by _parse_trade_response
    response,       \* "pending", "error" (HTTP 500) or "result" (HTTP 200)
    is_valid,       \* validate_trade_idea's is_valid (True until a check fails)
    warnings,       \* validate_trade_idea's warnings
    riskPc,         \* "parse", "validate", "done"
    \* --- POST /api/batch-analysis ---
    symbols,        \* the request's symbol list
    idx,            \* position of the loop in symbols[:10]
    results,        \* the results dict: symbol -> entry
    batchPc,        \* "loop", "returned", "failed" (HTTP 500)
    log,            \* history: what happened to each processed position
    \* --- TechnicalAnalyzer.generate_signals ---
    closes,         \* the closes handed to generate_signals
    sma_20,         \* None or a rational [num, den], as sma_50 and rsi
    sma_50,
    rsi,
    macd_data,      \* None or [macd, signal]
    bb_data,        \* None or [upper, lower]
    signals,        \* the list built so far
    sigPc,          \* "start", "rsi", "ma", "macd", "bb", "momentum", "done", "raised"
    \* --- TechnicalAnalyzer.analyze_trend, calculate_rsi, determine_trend ---
    data,           \* analyze_trend's argument
    ema_20,         \* None or a rational
    trend,          \* "" (none yet), "UNKNOWN", "BULLISH", "BEARISH", "SIDEWAYS"
    trendPc,        \* determine_trend: "start", "ma", "momentum", "done", "raised"
    rsiPc,          \* calculate_rsi: "call", "returned"
    exc,            \* "" or the exception on its way to analyze_trend's handler
    result,         \* None or the dict analyze_trend returns
    anPc,           \* "start", "extract", "indicators", "signals", "trend",
                    \* "raised", "returned", "uncaught"
    \* --- RiskManagementEngine.generate_risk_report ---
    trade_ideas,    \* the list of TradeIdea handed to generate_risk_report
    risk_report,    \* None or the returned dict
    reportPc,       \* "call", "returned"
    \* --- RiskManagementEngine.calculate_optimal_position_size ---
    entry_price,    \* the arguments (the profile is risk_profile above)
    stop_loss,
    confidence,
    position_size,  \* None or [shares |-> the returned int]
    sizePc,         \* "call", "returned", "raised"
    \* --- AngelOneService.authenticate_with_retry ---
    access_token,   \* None or [value |-> the stored token], as the next two
    refresh_token,
    feed_token,
    login_server,   \* the replies the login endpoint may give in this run
    totp_codes,     \* the codes of generate_totp_with_time_drift, as offsets
    attempt,        \* the loop's position in totp_codes, from 1
    login_log,      \* history: the login requests sent, each with its reply
    tokens_before,  \* history: the three tokens when the call started
    auth_result,    \* None or the returned dict
    authPc,         \* "idle", "start", "loop", "returned"
    \* --- AngelOneService.get_live_market_data ---
    ltp_symbol,     \* the symbol asked for
    auth_calls,     \* history: the calls of authenticate made by this call
    ltp_log,        \* history: the market-data requests sent, each with the
                    \* token of its Authorization header (None without one)
    ltp_result,     \* None or the returned dict
    ltpPc,          \* "idle", "start", "auth", "fetch", "returned"
    \* --- AngelOneService.get_multiple_ltp ---
    ltp_symbols,    \* the list of symbols asked for
    multi_idx,      \* the loop's position in ltp_symbols, from 1
    multi_data,     \* the results dict: symbol -> data
    fetch_log,      \* history: for each symbol fetched, whether it succeeded
    multi_auth_result, \* get_multiple_ltp's own auth_result: None until it authenticates
    multi_result,   \* None or the returned dict
    multiPc         \* "idle", "start", "auth", "loop", "fetch", "returned"

riskVars == <<trade_data, risk_profile, trade_idea, response, is_valid, warnings, riskPc>>
batchVars == <<symbols, idx, results, batchPc, log>>
sigVars == <<closes, sma_20, sma_50, rsi, macd_data, bb_data, signals, sigPc>>
taVars == <<data, ema_20, trend, trendPc, rsiPc, exc, result, anPc>>
reportVars == <<trade_ideas, risk_report, reportPc>>
sizeVars == <<entry_price, stop_loss, confidence, position_size, sizePc>>
authVars ==
    <<access_token, refresh_token, feed_token, login_server, totp_codes, attempt,
      login_log, tokens_before, auth_result, authPc>>
ltpVars == <<ltp_symbol, auth_calls, ltp_log, ltp_result, ltpPc>>
multiVars ==
    <<ltp_symbols, multi_idx, multi_data, fetch_log, multi_auth_result, multi_result,
      multiPc>>
angelVars == <<authVars, ltpVars, multiVars>>
vars == <<riskVars, batchVars, sigVars, taVars, reportVars, sizeVars, angelVars>>

-----------------------------------------------------------------------------
(* RiskManagementEngine constants, in the units of the comparisons below. *)

\* min_risk_reward = 1.5, in hundredths.
MinRiskReward100 == 150

\* max_position_size = 0.20, as the percentage 20/100.
MaxPositionPct == 20

\* confidence < 60
MinConfidence == 60

-----------------------------------------------------------------------------
(* AISignalGenerator._parse_trade_response *)

\* Field(ge=0, le=100) on TradeIdea.confidence.
ConfidenceAccepted(c) == c >= 0 /\ c <= 100

\* position_size = int(risk_amount / abs(entry - stop_loss)), with
\* risk_amount = portfolio_value * (risk_percent / 100).  Needs entry # stop.
ParsePositionSize(td, rp) ==
    IntTrunc(rp.portfolio_value * td.risk_percent, 100 * Abs(td.entry - td.stop_loss))

\* risk_reward_t1 = round(abs(target_1 - entry) / abs(entry - stop_loss), 2),
\* in hundredths.  Needs entry # stop.
ParseRiskReward(td) ==
    Round2(Abs(td.targets[1] - td.entry), Abs(td.entry - td.stop_loss))

\* ParseTradeResponse with the division guarded: entry = stop_loss yields a
\* TradeIdea of size 0 and ratio 0 instead of an exception.
ParseTradeResponse_Guarded(td, rp) ==
    IF ~ConfidenceAccepted(td.confidence) THEN None
    ELSE [entry |-> td.entry,
          stop_loss |-> td.stop_loss,
          targets |-> td.targets,
          risk_percent |-> td.risk_percent,
          position_size_lots_shares |->
              IF td.entry = td.stop_loss THEN 0 ELSE ParsePositionSize(td, rp),
          risk_reward_t1 |->
              IF td.entry = td.stop_loss THEN 0 ELSE ParseRiskReward(td),
          confidence |-> td.confidence]

\* The TradeIdea, or None when the body raises (division by zero for
\* entry = stop_loss, a pydantic ValidationError for the confidence).
ParseTradeResponse(td, rp) ==
    IF td.entry = td.stop_loss THEN None
    ELSE IF ~ConfidenceAccepted(td.confidence) THEN None
    ELSE [entry |-> td.entry,
          stop_loss |-> td.stop_loss,
          targets |-> td.targets,
          risk_percent |-> td.risk_percent,
          position_size_lots_shares |-> ParsePositionSize(td, rp),
          risk_reward_t1 |-> ParseRiskReward(td),
          confidence |-> td.confidence]

-----------------------------------------------------------------------------
(* RiskManagementEngine.validate_trade_idea *)

\* Line 23 divides by entry, line 36 by portfolio_value.
ValidateRaises(ti, rp) == ti.entry = 0 \/ rp.portfolio_value = 0

\* 1. stop_loss_percent = abs(entry - stop_loss) / entry * 100
StopTooTight(ti) == RatLt(100 * Abs(ti.entry - ti.stop_loss), ti.entry, 1, 2)

StopTooWide(ti) == RatGt(100 * Abs(ti.entry - ti.stop_loss), ti.entry, 5, 1)

CheckStopLoss(ti) ==
    IF StopTooTight(ti) THEN <<"stop_tight">>
    ELSE IF StopTooWide(ti) THEN <<"stop_wide">>
    ELSE <<>>

\* 2. risk_reward_t1 < min_risk_reward
RiskRewardFails(ti) == ti.risk_reward_t1 < MinRiskReward100

\* 3. position_size * entry / portfolio_value > max_position_size
PositionSizeFails(ti, rp) ==
    RatGt(ti.position_size_lots_shares * ti.entry, rp.portfolio_value, MaxPositionPct, 100)

\* 4. risk_percent > max_daily_risk_percent
RiskPercentFails(ti, rp) == ti.risk_percent > rp.max_daily_risk_percent

\* 5. confidence < 60
LowConfidence(ti) == ti.confidence < MinConfidence

\* ValidateTradeIdea with the confidence check gating validity.
ValidateTradeIdea_ConfidenceGates(ti, rp) ==
    LET w1 == CheckStopLoss(ti)
        w2 == IF RiskRewardFails(ti) THEN Append(w1, "risk_reward") ELSE w1
        w3 == IF PositionSizeFails(ti, rp) THEN Append(w2, "position_size") ELSE w2
        w4 == IF RiskPercentFails(ti, rp) THEN Append(w3, "risk_percent") ELSE w3
        w5 == IF LowConfidence(ti) THEN Append(w4, "low_confidence") ELSE w4
    IN  [is_valid |-> /\ ~RiskRewardFails(ti)
                      /\ ~PositionSizeFails(ti, rp)
                      /\ ~RiskPercentFails(ti, rp)
                      /\ ~LowConfidence(ti),
         warnings |-> w5]

\* ValidateTradeIdea returning as soon as the risk/reward check fails.
ValidateTradeIdea_StopsEarly(ti, rp) ==
    LET w1 == CheckStopLoss(ti)
        w3 == IF PositionSizeFails(ti, rp) THEN Append(w1, "position_size") ELSE w1
        w4 == IF RiskPercentFails(ti, rp) THEN Append(w3, "risk_percent") ELSE w3
        w5 == IF LowConfidence(ti) THEN Append(w4, "low_confidence") ELSE w4
    IN  IF RiskRewardFails(ti)
          THEN [is_valid |-> FALSE, warnings |-> Append(w1, "risk_reward")]
          ELSE [is_valid |-> ~PositionSizeFails(ti, rp) /\ ~RiskPercentFails(ti, rp),
                warnings |-> w5]

\* The (is_valid, warnings) pair the function returns; called only when
\* ValidateRaises is false.  Each check runs after the one before it and
\* appends to the same list.
ValidateTradeIdea(ti, rp) ==
    LET w1 == CheckStopLoss(ti)
        w2 == IF RiskRewardFails(ti) THEN Append(w1, "risk_reward") ELSE w1
        v2 == ~RiskRewardFails(ti)
        w3 == IF PositionSizeFails(ti, rp) THEN Append(w2, "position_size") ELSE w2
        v3 == IF PositionSizeFails(ti, rp) THEN FALSE ELSE v2
        w4 == IF RiskPercentFails(ti, rp) THEN Append(w3, "risk_percent") ELSE w3
        v4 == IF RiskPercentFails(ti, rp) THEN FALSE ELSE v3
        w5 == IF LowConfidence(ti) THEN Append(w4, "low_confidence") ELSE w4
    IN  [is_valid |-> v4, warnings |-> w5]


-----------------------------------------------------------------------------
(* Inputs of the trade-idea pipeline.  The sets hold, for each comparison  *)
(* of the code, values on both sides of it and on it: a stop 0.1%, 0.5%,   *)
(* 2%, 5%, 6% and 10.1% away from the entry, targets giving a risk/reward  *)
(* of 1.5, 1.6 and 151/101, zero and negative prices and portfolio values. *)

EntryPrices == {-50, 0, 100, 1000}

StopPrices == {0, 94, 95, 98, 100, 899, 995, 999}

Target1Prices == {0, 103, 108, 1151}

Target2Prices == {0, 106}

RiskPercents == {0, 1, 2, 3}

Confidences == {59, 60, 101}

PortfolioValues == {-100000, 0, 100, 100000}

MaxDailyRiskPercents == {1, 2}

TradeDatas ==
    {[entry |-> e, stop_loss |-> s, targets |-> <<t1, t2>>,
      risk_percent |-> r, confidence |-> c] :
        e \in EntryPrices, s \in StopPrices, t1 \in Target1Prices,
        t2 \in Target2Prices, r \in RiskPercents, c \in Confidences}

RiskProfiles ==
    {[portfolio_value |-> pv, max_daily_risk_percent |-> m] :
        pv \in PortfolioValues, m \in MaxDailyRiskPercents}

-----------------------------------------------------------------------------
(* Idle values: each specification runs one part of the program and leaves *)
(* the variables of the other parts at these values.                       *)

RiskIdle ==
    /\ trade_data = None /\ risk_profile = None /\ trade_idea = None
    /\ response = "pending" /\ is_valid = TRUE /\ warnings = <<>>
    /\ riskPc = "idle"

BatchIdle ==
    /\ symbols = <<>> /\ idx = 1 /\ results = <<>> /\ batchPc = "idle"
    /\ log = <<>>

SigIdle ==
    /\ closes = <<>> /\ sma_20 = None /\ sma_50 = None /\ rsi = None
    /\ macd_data = None /\ bb_data = None /\ signals = <<>> /\ sigPc = "idle"

AnalyzerIdle ==
    /\ data = None /\ ema_20 = None /\ trend = "" /\ trendPc = "idle"
    /\ rsiPc = "idle" /\ exc = "" /\ result = None /\ anPc = "idle"

ReportIdle ==
    /\ trade_ideas = <<>> /\ risk_report = None /\ reportPc = "idle"

SizeIdle ==
    /\ entry_price = 0 /\ stop_loss = 0 /\ confidence = 0
    /\ position_size = None /\ sizePc = "idle"

AuthIdle ==
    /\ access_token = None /\ refresh_token = None /\ feed_token = None
    /\ login_server = {} /\ totp_codes = <<>> /\ attempt = 1
    /\ login_log = <<>> /\ tokens_before = <<None, None, None>>
    /\ auth_result = None /\ authPc = "idle"

LtpIdle ==
    /\ ltp_symbol = "" /\ auth_calls = 0 /\ ltp_log = <<>>
    /\ ltp_result = None /\ ltpPc = "idle"

MultiIdle ==
    /\ ltp_symbols = <<>> /\ multi_idx = 1 /\ multi_data = <<>>
    /\ fetch_log = <<>> /\ multi_auth_result = None
    /\ multi_result = None /\ multiPc = "idle"

AngelIdle == AuthIdle /\ LtpIdle /\ MultiIdle

-----------------------------------------------------------------------------
(* POST /api/generate-trade-idea/{symbol}: main.generate_trade_idea *)

InitRisk ==
    /\ trade_data \in TradeDatas
    /\ risk_profile \in RiskProfiles
    /\ trade_idea = None
    /\ response = "pending"
    /\ is_valid = TRUE
    /\ warnings = <<>>
    /\ riskPc = "parse"
    /\ BatchIdle
    /\ SigIdle
    /\ AnalyzerIdle
    /\ ReportIdle
    /\ SizeIdle
    /\ AngelIdle

\* ai_generator.generate_trade_idea: the parsed TradeIdea, or None, on which
\* the endpoint raises HTTPException(500, "Failed to generate trade idea").
GenerateTradeIdea ==
    /\ riskPc = "parse"
    /\ trade_idea' = ParseTradeResponse(trade_data, risk_profile)
    /\ IF trade_idea' = None
         THEN /\ response' = "error"
              /\ riskPc' = "done"
         ELSE /\ response' = "pending"
              /\ riskPc' = "validate"
    /\ UNCHANGED <<trade_data, risk_profile, is_valid, warnings>>
    /\ UNCHANGED <<batchVars, sigVars, taVars, reportVars, sizeVars, angelVars>>

\* risk_manager.validate_trade_idea and the response built from it; an
\* exception of the call becomes HTTPException(500).
ValidateStep ==
    /\ riskPc = "validate"
    /\ IF ValidateRaises(trade_idea, risk_profile)
         THEN /\ response' = "error"
              /\ UNCHANGED <<is_valid, warnings>>
         ELSE /\ response' = "result"
              /\ is_valid' = ValidateTradeIdea(trade_idea, risk_profile).is_valid
              /\ warnings' = ValidateTradeIdea(trade_idea, risk_profile).warnings
    /\ riskPc' = "done"
    /\ UNCHANGED <<trade_data, risk_profile, trade_idea>>
    /\ UNCHANGED <<batchVars, sigVars, taVars, reportVars, sizeVars, angelVars>>

NextRisk == GenerateTradeIdea \/ ValidateStep

SpecRisk == InitRisk /\ [][NextRisk]_vars

-----------------------------------------------------------------------------
(* POST /api/batch-analysis: main.batch_analysis.  A symbol is a number.   *)
(* What the collaborators do for a symbol is an event: one of the awaited  *)
(* calls raised (data fetch, indicators, news), or the LLM answered with   *)
(* td (None: no answer), which then goes through _parse_trade_response and *)
(* validate_trade_idea as above.                                           *)

\* symbols[:10]
BatchLimit == 10

\* Longest request of the model: one symbol more than the limit.
MaxBatchLen == 11

\* UserRiskProfile's defaults.
DefaultRiskProfile == [portfolio_value |-> 100000, max_daily_risk_percent |-> 2]

\* A sound proposal, one with entry = stop_loss (no TradeIdea is built) and
\* one with entry = 0 (validate_trade_idea raises).
BatchTradeDatas ==
    {[entry |-> e, stop_loss |-> s, targets |-> <<108, 106>>,
      risk_percent |-> 1, confidence |-> 60] :
        e \in {0, 100}, s \in {95, 100}}

BatchEvents ==
    {[raised |-> TRUE, td |-> None]} \cup
    {[raised |-> FALSE, td |-> t] : t \in BatchTradeDatas \cup {None}}

\* Requests: n distinct symbols for every n up to MaxBatchLen, and the lists
\* of two and three symbols over {1, 2}, which repeat a symbol.
BatchRequests ==
    {[j \in 1..n |-> j] : n \in 0..MaxBatchLen} \cup
    [1..2 -> {1, 2}] \cup [1..3 -> {1, 2}]

\* symbols[:10] with an off-by-one limit.
BatchSlice_OffByOne(syms) == SubSeq(syms, 1, Min(Len(syms), BatchLimit - 1))

\* symbols[:10]
BatchSlice(syms) == SubSeq(syms, 1, Min(Len(syms), BatchLimit))

\* generate_trade_idea's return value for the event: the TradeIdea or None.
BatchTradeIdea(ev, rp) ==
    IF ev.td = None THEN None ELSE ParseTradeResponse(ev.td, rp)

\* Whether processing the symbol failed: an exception, or no trade idea.
SymbolFailed(ev, rp) ==
    \/ ev.raised
    \/ BatchTradeIdea(ev, rp) = None
    \/ ValidateRaises(BatchTradeIdea(ev, rp), rp)

\* The keys of the dict stored in results[symbol].
BatchEntry(ev, rp) ==
    IF ev.raised THEN {"error"}
    ELSE IF BatchTradeIdea(ev, rp) = None THEN {"error"}
    ELSE IF ValidateRaises(BatchTradeIdea(ev, rp), rp) THEN {"error"}
    ELSE {"trade_idea", "validation"}

\* The per-symbol handler re-raising: the failure reaches the outer handler
\* and the request ends with HTTP 500.
AfterSymbol_Propagates(failed) == IF failed THEN "failed" ELSE "loop"

\* Where the loop stands after a symbol: the inner except catches every
\* Exception, so the loop goes on.
AfterSymbol(failed) == "loop"

InitBatch ==
    /\ symbols \in BatchRequests
    /\ idx = 1
    /\ results = <<>>
    /\ batchPc = "loop"
    /\ log = <<>>
    /\ RiskIdle
    /\ SigIdle
    /\ AnalyzerIdle
    /\ ReportIdle
    /\ SizeIdle
    /\ AngelIdle

\* One iteration of the loop, for symbols[idx].
BatchSymbol ==
    /\ batchPc = "loop"
    /\ idx <= Len(BatchSlice(symbols))
    /\ \E ev \in BatchEvents :
          LET sym == BatchSlice(symbols)[idx]
              entry == BatchEntry(ev, DefaultRiskProfile)
              failed == SymbolFailed(ev, DefaultRiskProfile)
          IN  /\ results' = [s \in DOMAIN results \cup {sym} |->
                                IF s = sym THEN entry ELSE results[s]]
              /\ log' = Append(log, failed)
              /\ batchPc' = AfterSymbol(failed)
    /\ idx' = idx + 1
    /\ UNCHANGED symbols
    /\ UNCHANGED <<riskVars, sigVars, taVars, reportVars, sizeVars, angelVars>>

\* The loop is over: return {"results": results, ...}.
BatchReturn ==
    /\ batchPc = "loop"
    /\ idx > Len(BatchSlice(symbols))
    /\ batchPc' = "returned"
    /\ UNCHANGED <<symbols, idx, results, log>>
    /\ UNCHANGED <<riskVars, sigVars, taVars, reportVars, sizeVars, angelVars>>

NextBatch == BatchSymbol \/ BatchReturn

SpecBatch == InitBatch /\ [][NextBatch]_vars

\* Every awaited call of the loop returns or raises, so the loop advances.
SpecBatchFair == SpecBatch /\ WF_vars(NextBatch)

-----------------------------------------------------------------------------
(* TechnicalAnalyzer.generate_signals.  An indicator value is None or a    *)
(* rational [num, den] with den > 0; a close is an integer.  A signal is   *)
(* the dict the code appends, without its "reason" text and "value".       *)

Rat(n, d) == [num |-> n, den |-> d]

\* a < b for rationals with positive denominators.
RLt(a, b) == a.num * b.den < b.num * a.den

\* Python's truth value of an Optional[float]: None and 0.0 are false.
Truthy(x) == x # None /\ x.num # 0

Signal(type, strength, indicator) ==
    [type |-> type, strength |-> strength, indicator |-> indicator]

\* signals.insert(0, ...) in place of signals.append(...).
AppendSignal_Prepends(sigs, new) == new \o sigs

\* signals.append(...): new is the empty list or the rule's one signal.
AppendSignal(sigs, new) == sigs \o new

\* The RSI rule with the middle bands closed at 55 and 45.
RsiSignal_InclusiveBands(r) ==
    IF r = None THEN <<>>
    ELSE IF RLt(r, Rat(30, 1)) THEN <<Signal("BUY", "HIGH", "RSI")>>
    ELSE IF RLt(Rat(70, 1), r) THEN <<Signal("SELL", "HIGH", "RSI")>>
    ELSE IF ~RLt(r, Rat(55, 1)) THEN <<Signal("BUY", "MEDIUM", "RSI")>>
    ELSE IF ~RLt(Rat(45, 1), r) THEN <<Signal("SELL", "MEDIUM", "RSI")>>
    ELSE <<>>

\* RSI signals: rsi < 30, elif rsi > 70, elif rsi > 55, elif rsi < 45.
RsiSignal(r) ==
    IF r = None THEN <<>>
    ELSE IF RLt(r, Rat(30, 1)) THEN <<Signal("BUY", "HIGH", "RSI")>>
    ELSE IF RLt(Rat(70, 1), r) THEN <<Signal("SELL", "HIGH", "RSI")>>
    ELSE IF RLt(Rat(55, 1), r) THEN <<Signal("BUY", "MEDIUM", "RSI")>>
    ELSE IF RLt(r, Rat(45, 1)) THEN <<Signal("SELL", "MEDIUM", "RSI")>>
    ELSE <<>>

\* Moving Average signals: current_price > sma_20 > sma_50, or the mirror.
MovingAverageSignal(price, s20, s50) ==
    IF ~(Truthy(s20) /\ Truthy(s50)) THEN <<>>
    ELSE IF RLt(s20, Rat(price, 1)) /\ RLt(s50, s20)
        THEN <<Signal("BUY", "MEDIUM", "SMA_TREND")>>
    ELSE IF RLt(Rat(price, 1), s20) /\ RLt(s20, s50)
        THEN <<Signal("SELL", "MEDIUM", "SMA_TREND")>>
    ELSE <<>>

\* calculate_macd's result for a MACD line m/10: signal_line = macd_line * 0.9.
MacdData(m) ==
    [macd |-> Rat(10 * m, 10), signal |-> Rat(9 * m, 10), histogram |-> Rat(m, 10)]

\* MACD signals: above the signal line and zero, or below both.
MacdSignal(md) ==
    IF md = None THEN <<>>
    ELSE IF RLt(md.signal, md.macd) /\ RLt(Rat(0, 1), md.macd)
        THEN <<Signal("BUY", "MEDIUM", "MACD")>>
    ELSE IF RLt(md.macd, md.signal) /\ RLt(md.macd, Rat(0, 1))
        THEN <<Signal("SELL", "MEDIUM", "MACD")>>
    ELSE <<>>

\* Bollinger Bands signals: price below the lower or above the upper band.
BollingerSignal(price, bb) ==
    IF bb = None THEN <<>>
    ELSE IF RLt(Rat(price, 1), bb.lower)
        THEN <<Signal("BUY", "HIGH", "BOLLINGER")>>
    ELSE IF RLt(bb.upper, Rat(price, 1))
        THEN <<Signal("SELL", "HIGH", "BOLLINGER")>>
    ELSE <<>>

\* Price momentum signals with BUY and SELL already at 3%.
MomentumSignal_InclusiveThree(price, prev) ==
    LET up2 == RatGt(100 * (price - prev), prev, 2, 1)
        up3 == ~RatLt(100 * (price - prev), prev, 3, 1)
        down2 == RatLt(100 * (price - prev), prev, -2, 1)
        down3 == ~RatGt(100 * (price - prev), prev, -3, 1)
    IN  IF up2 THEN <<Signal(IF up3 THEN "BUY" ELSE "HOLD", "MEDIUM", "MOMENTUM")>>
        ELSE IF down2
            THEN <<Signal(IF down3 THEN "SELL" ELSE "HOLD", "MEDIUM", "MOMENTUM")>>
        ELSE <<>>

\* Price momentum signals, for prev # 0:
\* price_change = ((current_price - prev_price) / prev_price) * 100.
MomentumSignal(price, prev) ==
    LET up2 == RatGt(100 * (price - prev), prev, 2, 1)
        up3 == RatGt(100 * (price - prev), prev, 3, 1)
        down2 == RatLt(100 * (price - prev), prev, -2, 1)
        down3 == RatLt(100 * (price - prev), prev, -3, 1)
    IN  IF up2 THEN <<Signal(IF up3 THEN "BUY" ELSE "HOLD", "MEDIUM", "MOMENTUM")>>
        ELSE IF down2
            THEN <<Signal(IF down3 THEN "SELL" ELSE "HOLD", "MEDIUM", "MOMENTUM")>>
        ELSE <<>>

\* closes[-1] and closes[-2]
CurrentPrice == closes[Len(closes)]

PrevPrice == closes[Len(closes) - 1]

(* Inputs: a list of one close (the function returns at once), and the last *)
(* two closes of a longer list, the last one -4% .. +4% from the one before *)
(* it, or the one before it 0.                                              *)
SigCloses ==
    {<<100>>, <<0, 100>>} \cup
    {<<100, c>> : c \in {96, 97, 98, 100, 102, 103, 104}}

RsiInputs ==
    {None} \cup
    {Rat(n, 1) : n \in {0, 29, 30, 45, 46, 55, 56, 70, 71, 100}} \cup
    {Rat(89, 2), Rat(109, 2)}

SmaInputs ==
    {<<None, None>>, <<Rat(99, 1), None>>, <<Rat(99, 1), Rat(98, 1)>>,
     <<Rat(101, 1), Rat(102, 1)>>, <<Rat(99, 1), Rat(102, 1)>>,
     <<Rat(0, 1), Rat(98, 1)>>}

MacdInputs == {None} \cup {MacdData(m) : m \in {-5, 0, 5}}

BollingerInputs ==
    {None, [upper |-> Rat(110, 1), lower |-> Rat(90, 1)],
     [upper |-> Rat(110, 1), lower |-> Rat(105, 1)],
     [upper |-> Rat(95, 1), lower |-> Rat(90, 1)]}

InitSig ==
    /\ closes \in SigCloses
    /\ \E sma \in SmaInputs : sma_20 = sma[1] /\ sma_50 = sma[2]
    /\ rsi \in RsiInputs
    /\ macd_data \in MacdInputs
    /\ bb_data \in BollingerInputs
    /\ signals = <<>>
    /\ sigPc = "start"
    /\ RiskIdle
    /\ BatchIdle
    /\ AnalyzerIdle
    /\ ReportIdle
    /\ SizeIdle
    /\ AngelIdle

\* signals = []; if len(closes) < 2: return signals
SigStart ==
    /\ sigPc = "start"
    /\ sigPc' = IF Len(closes) < 2 THEN "done" ELSE "rsi"
    /\ UNCHANGED <<closes, sma_20, sma_50, rsi, macd_data, bb_data, signals>>
    /\ UNCHANGED <<riskVars, batchVars, taVars, reportVars, sizeVars, angelVars>>

RsiRule ==
    /\ sigPc = "rsi"
    /\ signals' = AppendSignal(signals, RsiSignal(rsi))
    /\ sigPc' = "ma"
    /\ UNCHANGED <<closes, sma_20, sma_50, rsi, macd_data, bb_data>>
    /\ UNCHANGED <<riskVars, batchVars, taVars, reportVars, sizeVars, angelVars>>

MovingAverageRule ==
    /\ sigPc = "ma"
    /\ signals' = AppendSignal(signals, MovingAverageSignal(CurrentPrice, sma_20, sma_50))
    /\ sigPc' = "macd"
    /\ UNCHANGED <<closes, sma_20, sma_50, rsi, macd_data, bb_data>>
    /\ UNCHANGED <<riskVars, batchVars, taVars, reportVars, sizeVars, angelVars>>

MacdRule ==
    /\ sigPc = "macd"
    /\ signals' = AppendSignal(signals, MacdSignal(macd_data))
    /\ sigPc' = "bb"
    /\ UNCHANGED <<closes, sma_20, sma_50, rsi, macd_data, bb_data>>
    /\ UNCHANGED <<riskVars, batchVars, taVars, reportVars, sizeVars, angelVars>>

BollingerRule ==
    /\ sigPc = "bb"
    /\ signals' = AppendSignal(signals, BollingerSignal(CurrentPrice, bb_data))
    /\ sigPc' = "momentum"
    /\ UNCHANGED <<closes, sma_20, sma_50, rsi, macd_data, bb_data>>
    /\ UNCHANGED <<riskVars, batchVars, taVars, reportVars, sizeVars, angelVars>>

\* The momentum rule and the return; prev_price = 0 raises ZeroDivisionError
\* and nothing is returned.
MomentumRule ==
    /\ sigPc = "momentum"
    /\ IF PrevPrice = 0
         THEN /\ sigPc' = "raised"
              /\ UNCHANGED signals
         ELSE /\ sigPc' = "done"
              /\ signals' = AppendSignal(signals, MomentumSignal(CurrentPrice, PrevPrice))
    /\ UNCHANGED <<closes, sma_20, sma_50, rsi, macd_data, bb_data>>
    /\ UNCHANGED <<riskVars, batchVars, taVars, reportVars, sizeVars, angelVars>>

NextSig ==
    SigStart \/ RsiRule \/ MovingAverageRule \/ MacdRule \/ BollingerRule
        \/ MomentumRule

SpecSig == InitSig /\ [][NextSig]_vars

-----------------------------------------------------------------------------
(* TechnicalAnalyzer's indicators.  A series is a list of integer closes;  *)
(* an indicator value is None or a rational in lowest terms.               *)

RECURSIVE Gcd(_, _)
Gcd(a, b) == IF b = 0 THEN a ELSE Gcd(b, a % b)

\* n/d in lowest terms with a positive denominator (d # 0).
Norm(n, d) ==
    LET g == Gcd(Abs(n), Abs(d))
        sgn == IF d < 0 THEN -1 ELSE 1
    IN  Rat(sgn * (n \div g), sgn * (d \div g))

RSub(a, b) == Norm(a.num * b.den - b.num * a.den, a.den * b.den)

RAdd(a, b) == Norm(a.num * b.den + b.num * a.den, a.den * b.den)

\* sum(prices)
RECURSIVE Sum(_)
Sum(prices) == IF prices = <<>> THEN 0 ELSE Head(prices) + Sum(Tail(prices))

\* prices[-n:] for 0 < n <= len(prices)
LastN(prices, n) == SubSeq(prices, Len(prices) - n + 1, Len(prices))

\* prices[:n] for n <= len(prices)
FirstN(prices, n) == SubSeq(prices, 1, n)

\* calculate_sma: the mean of the last period prices.
CalculateSma(prices, period) ==
    IF Len(prices) < period THEN None
    ELSE Norm(Sum(LastN(prices, period)), period)

\* The loop of calculate_ema over prices[i..j], entered with ema:
\* ema = price * multiplier + ema * (1 - multiplier), multiplier = 2 / (period + 1),
\* price by price in the order of the list (the range is walked in halves,
\* the first half before the second).
RECURSIVE EmaLoop(_, _, _, _, _)
EmaLoop(ema, prices, i, j, period) ==
    IF i > j THEN ema
    ELSE IF i = j
        THEN Norm(2 * prices[i] * ema.den + (period - 1) * ema.num,
                  (period + 1) * ema.den)
    ELSE LET mid == (i + j) \div 2
             first == EmaLoop(ema, prices, i, mid, period)
         IN  IF first = None THEN None
             ELSE EmaLoop(first, prices, mid + 1, j, period)

\* calculate_ema: seeded with the mean of the first period prices.
CalculateEma(prices, period) ==
    IF Len(prices) < period THEN None
    ELSE EmaLoop(Norm(Sum(FirstN(prices, period)), period),
                 prices, period + 1, Len(prices), period)

\* deltas: prices[i] - prices[i-1] for i in range(1, len(prices))
Deltas(prices) == [i \in 1..(Len(prices) - 1) |-> prices[i + 1] - prices[i]]

\* gains = [max(delta, 0) ...]
Gains(prices) == [i \in 1..(Len(prices) - 1) |->
                     IF Deltas(prices)[i] > 0 THEN Deltas(prices)[i] ELSE 0]

\* losses = [max(-delta, 0) ...]
Losses(prices) == [i \in 1..(Len(prices) - 1) |->
                      IF Deltas(prices)[i] < 0 THEN -Deltas(prices)[i] ELSE 0]

\* avg_loss == 0, for len(prices) > period: the sum of the last period losses.
AvgLossIsZero(prices, period) == Sum(LastN(Losses(prices), period)) = 0

\* calculate_rsi with gains = deltas, without max(delta, 0) (1 + rs = 0
\* raises there; no value is returned).
CalculateRsi_RawDeltas(prices, period) ==
    IF Len(prices) < period + 1 THEN None
    ELSE LET g == Sum(LastN(Deltas(prices), period))
             l == Sum(LastN(Losses(prices), period))
         IN  IF l = 0 THEN Rat(100, 1)
             ELSE IF g + l = 0 THEN None
             ELSE Norm(100 * g, g + l)

\* calculate_rsi with the neutral 50 returned when avg_loss == 0.
CalculateRsi_ZeroLossNeutral(prices, period) ==
    IF Len(prices) < period + 1 THEN None
    ELSE LET g == Sum(LastN(Gains(prices), period))
             l == Sum(LastN(Losses(prices), period))
         IN  IF l = 0 THEN Rat(50, 1)
             ELSE Norm(100 * g, g + l)

\* calculate_rsi: None below period + 1 prices; 100 when avg_loss == 0; else
\* 100 - 100 / (1 + avg_gain / avg_loss), which is 100 * g / (g + l) for the
\* sums g and l of the last period gains and losses (the two divisions by
\* period cancel).
CalculateRsi(prices, period) ==
    IF Len(prices) < period + 1 THEN None
    ELSE LET g == Sum(LastN(Gains(prices), period))
             l == Sum(LastN(Losses(prices), period))
         IN  IF l = 0 THEN Rat(100, 1)
             ELSE Norm(100 * g, g + l)

\* calculate_macd with a signal line 10% beyond the MACD line.
CalculateMacd_SignalBeyond(prices) ==
    IF Len(prices) < 26 THEN None
    ELSE LET macd_line == RSub(CalculateEma(prices, 12), CalculateEma(prices, 26))
             signal_line == Norm(11 * macd_line.num, 10 * macd_line.den)
         IN  [macd |-> macd_line,
              signal |-> signal_line,
              histogram |-> RSub(macd_line, signal_line)]

\* calculate_macd: None below slow = 26 prices; macd = EMA12 - EMA26,
\* signal = macd * 0.9, histogram = macd - signal.
CalculateMacd(prices) ==
    IF Len(prices) < 26 THEN None
    ELSE LET macd_line == RSub(CalculateEma(prices, 12), CalculateEma(prices, 26))
             signal_line == Norm(9 * macd_line.num, 10 * macd_line.den)
         IN  [macd |-> macd_line,
              signal |-> signal_line,
              histogram |-> RSub(macd_line, signal_line)]

\* The largest k in lo..hi with k * k <= n, by bisection (lo * lo <= n).
RECURSIVE IsqrtBetween(_, _, _)
IsqrtBetween(n, lo, hi) ==
    IF lo >= hi THEN lo
    ELSE LET mid == (lo + hi + 1) \div 2
         IN  IF mid * mid <= n THEN IsqrtBetween(n, mid, hi)
             ELSE IsqrtBetween(n, lo, mid - 1)

\* The largest k with k * k <= n, for 0 <= n < 2^31.
Isqrt(n) == IsqrtBetween(n, 0, Min(n, 46340))

\* variance ** 0.5 of a rational v >= 0 in lowest terms: the root itself
\* when v is the square of a rational, else the root cut to a thousandth.
Sqrt(v) ==
    IF Isqrt(v.num) * Isqrt(v.num) = v.num /\ Isqrt(v.den) * Isqrt(v.den) = v.den
        THEN Rat(Isqrt(v.num), Isqrt(v.den))
    ELSE Norm(Isqrt(1000000 * (v.num \div v.den)
                        + (1000000 * (v.num % v.den)) \div v.den), 1000)

\* variance = sum((price - sma) ** 2 for price in recent_prices) / period,
\* which is (period * sum(p^2) - sum(p)^2) / period^2.
Variance(recent_prices) ==
    LET n == Len(recent_prices)
        squares == [i \in 1..n |-> recent_prices[i] * recent_prices[i]]
    IN  Norm(n * Sum(squares) - Sum(recent_prices) * Sum(recent_prices), n * n)

\* calculate_bollinger_bands, period = 20 and std_dev = 2.
CalculateBollingerBands(prices) ==
    IF Len(prices) < 20 THEN None
    ELSE LET sma == CalculateSma(prices, 20)
             std == Sqrt(Variance(LastN(prices, 20)))
             two_std == Norm(2 * std.num, std.den)
         IN  [upper |-> RAdd(sma, two_std),
              middle |-> sma,
              lower |-> RSub(sma, two_std)]

-----------------------------------------------------------------------------
(* Series of closes.  A series is put together from runs of equal closes   *)
(* and from shapes given close by close.                                   *)

\* n closes at v.
Run(n, v) == [i \in 1..n |-> v]

\* The i-th close of a shape: flat, all zero, rising, falling, and three
\* that mix gains and losses.
ShapeClose(shape, i) ==
    CASE shape = "flat" -> 100
      [] shape = "zero" -> 0
      [] shape = "up" -> 100 + i
      [] shape = "down" -> 100 - i
      [] shape = "zigzag" -> IF i % 2 = 1 THEN 100 ELSE 103
      [] shape = "saw" -> 100 + 2 * (i % 3)
      [] shape = "slide" -> 200 - 3 * i + (IF i % 4 = 0 THEN 5 ELSE 0)

Shapes == {"flat", "zero", "up", "down", "zigzag", "saw", "slide"}

Shaped(shape, n) == [i \in 1..n |-> ShapeClose(shape, i)]

-----------------------------------------------------------------------------
(* TechnicalAnalyzer.calculate_rsi(closes, 14), called on its own. *)

\* period = 14
RsiPeriod == 14

\* Longest series handed to calculate_rsi.
MaxRsiLen == 17

RsiSeries == {Shaped(shape, n) : shape \in Shapes, n \in 0..MaxRsiLen}

InitRsi ==
    /\ closes \in RsiSeries
    /\ rsi = None
    /\ rsiPc = "call"
    /\ sma_20 = None /\ sma_50 = None /\ macd_data = None /\ bb_data = None
    /\ signals = <<>> /\ sigPc = "idle"
    /\ data = None /\ ema_20 = None /\ trend = "" /\ trendPc = "idle"
    /\ exc = "" /\ result = None /\ anPc = "idle"
    /\ RiskIdle
    /\ BatchIdle
    /\ ReportIdle
    /\ SizeIdle
    /\ AngelIdle

\* rsi = self.calculate_rsi(closes, 14)
CalculateRsiCall ==
    /\ rsiPc = "call"
    /\ rsi' = CalculateRsi(closes, RsiPeriod)
    /\ rsiPc' = "returned"
    /\ UNCHANGED <<closes, sma_20, sma_50, macd_data, bb_data, signals, sigPc>>
    /\ UNCHANGED <<data, ema_20, trend, trendPc, exc, result, anPc>>
    /\ UNCHANGED <<riskVars, batchVars, reportVars, sizeVars, angelVars>>

NextRsi == CalculateRsiCall

SpecRsi == InitRsi /\ [][NextRsi]_vars

-----------------------------------------------------------------------------
(* TechnicalAnalyzer.determine_trend(closes, sma_20, sma_50), with the     *)
(* averages analyze_trend hands it: calculate_sma(closes, 20) and          *)
(* calculate_sma(closes, 50).                                              *)

\* len(closes) < 10 with the averages required as well.
TooShortForTrend_NeedsAverages(cl, s20, s50) ==
    Len(cl) < 10 \/ s20 = None \/ s50 = None

\* if len(closes) < 10: return "UNKNOWN"
TooShortForTrend(cl, s20, s50) == Len(cl) < 10

\* An alignment that wants the 20-period average on the other side of the
\* 50-period one.
MovingAverageTrend_CrossedAverages(price, s20, s50) ==
    IF ~(Truthy(s20) /\ Truthy(s50)) THEN ""
    ELSE IF RLt(s20, Rat(price, 1)) /\ RLt(s20, s50) THEN "BULLISH"
    ELSE IF RLt(Rat(price, 1), s20) /\ RLt(s50, s20) THEN "BEARISH"
    ELSE ""

\* "Use moving averages if available": the label, or "" to fall through.
MovingAverageTrend(price, s20, s50) ==
    IF ~(Truthy(s20) /\ Truthy(s50)) THEN ""
    ELSE IF RLt(s20, Rat(price, 1)) /\ RLt(s50, s20) THEN "BULLISH"
    ELSE IF RLt(Rat(price, 1), s20) /\ RLt(s20, s50) THEN "BEARISH"
    ELSE ""

\* sum(closes[-5:]) and sum(closes[-10:-5])
RecentSum(cl) == Sum(LastN(cl, 5))

OlderSum(cl) == Sum(SubSeq(cl, Len(cl) - 9, Len(cl) - 5))

\* "Fallback to price momentum", for older_avg # 0:
\* change_percent = ((recent_avg - older_avg) / older_avg) * 100, where the
\* two divisions by 5 cancel.
MomentumTrend(cl) ==
    IF RatGt(100 * (RecentSum(cl) - OlderSum(cl)), OlderSum(cl), 1, 1)
        THEN "BULLISH"
    ELSE IF RatLt(100 * (RecentSum(cl) - OlderSum(cl)), OlderSum(cl), -1, 1)
        THEN "BEARISH"
    ELSE "SIDEWAYS"

\* Series whose last ten closes are nine at o and a last close of o + d:
\* the mean of the last five is d / 5 above the mean of the five before.
TailSeries(n, o, d) == Run(n - 1, o) \o <<o + d>>

\* A series of n >= 50 closes on which EMA20 stays an integer: twenty closes
\* at lvl - 2 * shift, one at lvl + 19 * shift (EMA20 is lvl after it), then
\* closes at lvl, and a last close of lvl + 21 * d (EMA20 ends at lvl + 2 * d).
LevelShiftSeries(n, lvl, shift, d) ==
    Run(20, lvl - 2 * shift) \o <<lvl + 19 * shift>> \o Run(n - 22, lvl)
        \o <<lvl + 21 * d>>

TrendSeries ==
    {Run(n, 100) : n \in {0, 1, 9}} \cup
    {TailSeries(n, o, d) : n \in {10, 11, 20, 49}, o \in {100, 1000},
                           d \in {-60, -6, -5, 0, 5, 6, 60}} \cup
    {LevelShiftSeries(n, lvl, shift, d) : n \in {50, 51}, lvl \in {400, 420, 1000},
                                          shift \in {-2, 0, 2}, d \in {-1, 0, 1}} \cup
    {Run(10, 0), Run(5, 0) \o Run(5, 100), Run(5, -100) \o Run(5, -98)}

InitTrend ==
    /\ closes \in TrendSeries
    /\ sma_20 = CalculateSma(closes, 20)
    /\ sma_50 = CalculateSma(closes, 50)
    /\ trend = ""
    /\ trendPc = "start"
    /\ rsi = None /\ macd_data = None /\ bb_data = None
    /\ signals = <<>> /\ sigPc = "idle"
    /\ data = None /\ ema_20 = None /\ rsiPc = "idle"
    /\ exc = "" /\ result = None /\ anPc = "idle"
    /\ RiskIdle
    /\ BatchIdle
    /\ ReportIdle
    /\ SizeIdle
    /\ AngelIdle

\* if len(closes) < 10: return "UNKNOWN"
TrendStart ==
    /\ trendPc = "start"
    /\ IF TooShortForTrend(closes, sma_20, sma_50)
         THEN trend' = "UNKNOWN" /\ trendPc' = "done"
         ELSE trend' = trend /\ trendPc' = "ma"
    /\ UNCHANGED <<data, ema_20, rsiPc, exc, result, anPc>>
    /\ UNCHANGED <<riskVars, batchVars, sigVars, reportVars, sizeVars, angelVars>>

\* if sma_20 and sma_50: ... return "BULLISH" / "BEARISH"
TrendMovingAverages ==
    /\ trendPc = "ma"
    /\ IF MovingAverageTrend(CurrentPrice, sma_20, sma_50) # ""
         THEN /\ trend' = MovingAverageTrend(CurrentPrice, sma_20, sma_50)
              /\ trendPc' = "done"
         ELSE /\ trend' = trend
              /\ trendPc' = "momentum"
    /\ UNCHANGED <<data, ema_20, rsiPc, exc, result, anPc>>
    /\ UNCHANGED <<riskVars, batchVars, sigVars, reportVars, sizeVars, angelVars>>

\* The fallback; older_avg = 0 raises ZeroDivisionError and no label is
\* returned.
TrendMomentum ==
    /\ trendPc = "momentum"
    /\ IF OlderSum(closes) = 0
         THEN trend' = trend /\ trendPc' = "raised"
         ELSE trend' = MomentumTrend(closes) /\ trendPc' = "done"
    /\ UNCHANGED <<data, ema_20, rsiPc, exc, result, anPc>>
    /\ UNCHANGED <<riskVars, batchVars, sigVars, reportVars, sizeVars, angelVars>>

NextTrend == TrendStart \/ TrendMovingAverages \/ TrendMomentum

SpecTrend == InitTrend /\ [][NextTrend]_vars

-----------------------------------------------------------------------------
(* TechnicalAnalyzer.analyze_trend(data).  data is a record: kind says     *)
(* what was handed in, candles holds historical_data["data"] when that is  *)
(* a list.  A candle has a form and, where it has one, a close.            *)

\* The candle [timestamp, open, high, low, close, volume].
ListCandle(c) == [form |-> "list", close |-> c]

\* The candle {"close": c, ...}.
DictCandle(c) == [form |-> "dict", close |-> c]

\* A list of fewer than 5 elements, a dict without "close", a candle that is
\* neither a list nor a dict, and a list whose close is not a number.
ShortListCandle == [form |-> "short_list", close |-> 0]

DictNoCloseCandle == [form |-> "dict_no_close", close |-> 0]

OtherCandle == [form |-> "other", close |-> 0]

BadCloseCandle == [form |-> "list_bad", close |-> 0]

ListCandles(series) == [i \in 1..Len(series) |-> ListCandle(series[i])]

CandleData(candles) == [kind |-> "candles", candles |-> candles]

\* The loop over candles: a list of 5 or more elements and a dict give a
\* close (0 for a dict without "close"), anything else is skipped.
RECURSIVE ExtractedCloses(_)
ExtractedCloses(candles) ==
    IF candles = <<>> THEN <<>>
    ELSE LET c == Head(candles)
             rest == ExtractedCloses(Tail(candles))
         IN  IF c.form \in {"list", "dict", "dict_no_close"} THEN <<c.close>> \o rest
             ELSE rest

\* The candles before the first one on which float() raises (all of them if
\* there is none).
RECURSIVE BeforeBadClose(_)
BeforeBadClose(candles) ==
    IF candles = <<>> THEN <<>>
    ELSE IF Head(candles).form = "list_bad" THEN <<>>
    ELSE <<Head(candles)>> \o BeforeBadClose(Tail(candles))

\* round(x, digits) of a rational, scale = 10^digits, half to even.
RoundTo(x, scale) ==
    LET n == Abs(x.num) * scale
        q == n \div x.den
        r == n % x.den
        up == IF 2 * r < x.den THEN q
              ELSE IF 2 * r > x.den THEN q + 1
              ELSE IF q % 2 = 0 THEN q ELSE q + 1
    IN  Norm(IF x.num < 0 THEN -up ELSE up, scale)

\* round(x, 2) if x else None: None and 0.0 both give None.
ReportedValue(x) == IF Truthy(x) THEN RoundTo(x, 100) ELSE None

\* The "indicators" dict of the result.
Indicators ==
    [sma_20 |-> ReportedValue(sma_20),
     sma_50 |-> ReportedValue(sma_50),
     ema_20 |-> ReportedValue(ema_20),
     rsi |-> ReportedValue(rsi),
     macd |-> IF macd_data # None THEN RoundTo(macd_data.macd, 10000) ELSE None,
     bb_upper |-> IF bb_data # None THEN RoundTo(bb_data.upper, 100) ELSE None,
     bb_lower |-> IF bb_data # None THEN RoundTo(bb_data.lower, 100) ELSE None]

FullResult ==
    [success |-> TRUE,
     current_price |-> CurrentPrice,
     indicators |-> Indicators,
     signals |-> signals,
     trend |-> trend,
     timestamp |-> "unknown"]

ErrorResult(msg) == [success |-> FALSE, error |-> msg]

\* A handler that catches ValueError only.
Catches_OnlyValueError(e) == e = "ValueError"

\* except Exception as e: every exception of the body is caught.
Catches(e) == TRUE

\* if not candles or len(candles) < 20 / if len(closes) < 20
MinCandles == 20

(* Inputs.  Series of 2 to 22 closes of every shape; flat series of 26 to  *)
(* 60 closes and the same with a last close that moves; a fall and a rise  *)
(* between two levels; series with zero closes; candle lists with          *)
(* malformed candles; and arguments that hold no candle list.              *)
AnalyzeSeries ==
    {Shaped(shape, n) : shape \in Shapes, n \in {2, 15, 19, 20, 21, 22}} \cup
    {Run(n, 100) : n \in {26, 49, 50, 60}} \cup
    {Run(n - 1, 100) \o <<last>> : n \in {26, 50, 60}, last \in {96, 104, 110}} \cup
    {Run(10, 102) \o Run(10, 98), Run(10, 98) \o Run(10, 102),
     Run(15, 0) \o Run(5, 100), Run(18, 100) \o <<0, 100>>,
     Run(24, 100) \o <<0, 100>>}

MalformedCandleLists ==
    {<<ShortListCandle>> \o ListCandles(Run(19, 100)),
     <<OtherCandle>> \o ListCandles(Shaped("up", 20)),
     ListCandles(Run(19, 100)) \o <<BadCloseCandle>>,
     [i \in 1..20 |-> DictCandle(ShapeClose("zigzag", i))],
     [i \in 1..20 |-> IF i = 19 THEN DictNoCloseCandle ELSE DictCandle(100)],
     <<>>}

AnalyzeDatas ==
    {CandleData(ListCandles(series)) : series \in AnalyzeSeries} \cup
    {CandleData(candles) : candles \in MalformedCandleLists} \cup
    {[kind |-> k, candles |-> <<>>] :
        k \in {"not_a_dict", "unsuccessful", "no_data", "data_not_container",
               "no_candle_list"}}

InitAnalyze ==
    /\ data \in AnalyzeDatas
    /\ closes = <<>>
    /\ sma_20 = None /\ sma_50 = None /\ ema_20 = None /\ rsi = None
    /\ macd_data = None /\ bb_data = None
    /\ signals = <<>> /\ sigPc = "idle"
    /\ trend = "" /\ trendPc = "idle"
    /\ rsiPc = "idle"
    /\ exc = ""
    /\ result = None
    /\ anPc = "start"
    /\ RiskIdle
    /\ BatchIdle
    /\ ReportIdle
    /\ SizeIdle
    /\ AngelIdle

\* Lines 114-126: the checks on data and on the number of candles.
AnalyzeStart ==
    /\ anPc = "start"
    /\ CASE data.kind = "not_a_dict" ->
                exc' = "AttributeError" /\ anPc' = "raised" /\ result' = result
         [] data.kind \in {"unsuccessful", "no_data"} ->
                /\ result' = ErrorResult("Invalid data provided")
                /\ anPc' = "returned" /\ exc' = exc
         [] data.kind = "data_not_container" ->
                exc' = "TypeError" /\ anPc' = "raised" /\ result' = result
         [] data.kind = "no_candle_list" ->
                /\ result' = ErrorResult("No historical candle data found")
                /\ anPc' = "returned" /\ exc' = exc
         [] data.kind = "candles" ->
                IF Len(data.candles) < MinCandles
                  THEN /\ result' = ErrorResult("Insufficient historical data")
                       /\ anPc' = "returned" /\ exc' = exc
                  ELSE anPc' = "extract" /\ result' = result /\ exc' = exc
    /\ UNCHANGED <<data, ema_20, trend, trendPc, rsiPc>>
    /\ UNCHANGED <<riskVars, batchVars, sigVars, reportVars, sizeVars, angelVars>>

\* Lines 129-138: the closes of the candles.
ExtractCloses ==
    /\ anPc = "extract"
    /\ closes' = ExtractedCloses(BeforeBadClose(data.candles))
    /\ IF BeforeBadClose(data.candles) # data.candles
         THEN exc' = "ValueError" /\ anPc' = "raised" /\ result' = result
         ELSE IF Len(closes') < MinCandles
           THEN /\ result' = ErrorResult("Insufficient price data")
                /\ anPc' = "returned" /\ exc' = exc
           ELSE anPc' = "indicators" /\ result' = result /\ exc' = exc
    /\ UNCHANGED <<data, ema_20, trend, trendPc, rsiPc>>
    /\ UNCHANGED <<sma_20, sma_50, rsi, macd_data, bb_data, signals, sigPc>>
    /\ UNCHANGED <<riskVars, batchVars, reportVars, sizeVars, angelVars>>

\* Lines 141-150: the indicators, and the call of generate_signals.
CalculateIndicators ==
    /\ anPc = "indicators"
    /\ sma_20' = CalculateSma(closes, 20)
    /\ sma_50' = CalculateSma(closes, 50)
    /\ ema_20' = CalculateEma(closes, 20)
    /\ rsi' = CalculateRsi(closes, RsiPeriod)
    /\ macd_data' = CalculateMacd(closes)
    /\ bb_data' = CalculateBollingerBands(closes)
    /\ sigPc' = "start"
    /\ anPc' = "signals"
    /\ UNCHANGED <<data, trend, trendPc, rsiPc, exc, result>>
    /\ UNCHANGED <<closes, signals>>
    /\ UNCHANGED <<riskVars, batchVars, reportVars, sizeVars, angelVars>>

\* Line 153: generate_signals has returned; determine_trend is called.
CallDetermineTrend ==
    /\ anPc = "signals"
    /\ sigPc = "done"
    /\ trendPc' = "start"
    /\ anPc' = "trend"
    /\ UNCHANGED <<data, ema_20, trend, rsiPc, exc, result>>
    /\ UNCHANGED <<riskVars, batchVars, sigVars, reportVars, sizeVars, angelVars>>

\* Lines 155-170: the result.
AnalyzeReturn ==
    /\ anPc = "trend"
    /\ trendPc = "done"
    /\ result' = FullResult
    /\ anPc' = "returned"
    /\ UNCHANGED <<data, ema_20, trend, trendPc, rsiPc, exc>>
    /\ UNCHANGED <<riskVars, batchVars, sigVars, reportVars, sizeVars, angelVars>>

\* Lines 172-174: an exception of the body (generate_signals and
\* determine_trend raise ZeroDivisionError) reaches the handler.
AnalyzeExcept ==
    /\ \/ anPc = "raised"
       \/ anPc = "signals" /\ sigPc = "raised"
       \/ anPc = "trend" /\ trendPc = "raised"
    /\ exc' = IF anPc = "raised" THEN exc ELSE "ZeroDivisionError"
    /\ IF Catches(exc')
         THEN result' = ErrorResult(exc') /\ anPc' = "returned"
         ELSE result' = result /\ anPc' = "uncaught"
    /\ UNCHANGED <<data, ema_20, trend, trendPc, rsiPc>>
    /\ UNCHANGED <<riskVars, batchVars, sigVars, reportVars, sizeVars, angelVars>>

NextAnalyze ==
    \/ AnalyzeStart
    \/ ExtractCloses
    \/ CalculateIndicators
    \/ NextSig
    \/ CallDetermineTrend
    \/ NextTrend
    \/ AnalyzeReturn
    \/ AnalyzeExcept

SpecAnalyze == InitAnalyze /\ [][NextAnalyze]_vars

-----------------------------------------------------------------------------
(* RiskManagementEngine.generate_risk_report(trade_ideas), called by        *)
(* POST /api/risk-assessment.  A trade idea is the record of the fields the *)
(* report reads.  The total-risk warning is modelled by its fixed part (the *)
(* source formats the two percentages into it).                             *)

\* self.max_portfolio_risk = 10.0
MaxPortfolioRisk == 10

\* The longest list of trade ideas.
MaxTrades == 3

ReportTrades ==
    [symbol : {"NIFTY", "RELIANCE"},
     risk_percent : {4, 5, 6},
     position_size_lots_shares : {10},
     entry : {100, 50000},
     confidence : {50, 90}]

ReportInputs == UNION {[1..n -> ReportTrades] : n \in 0..MaxTrades}

\* sum(idea.risk_percent for idea in trade_ideas)
TotalRisk(ideas) == Sum([i \in 1..Len(ideas) |-> ideas[i].risk_percent])

\* sum(idea.position_size_lots_shares * idea.entry for idea in trade_ideas)
TotalExposure(ideas) ==
    Sum([i \in 1..Len(ideas) |->
            ideas[i].position_size_lots_shares * ideas[i].entry])

\* sum(idea.confidence for idea in trade_ideas) / len(trade_ideas)
AvgConfidence(ideas) ==
    Norm(Sum([i \in 1..Len(ideas) |-> ideas[i].confidence]), Len(ideas))

\* A ceiling that is already reached at 10.
ExceedsPortfolioRisk_Inclusive(total_risk) == total_risk >= MaxPortfolioRisk

\* if total_risk > self.max_portfolio_risk
ExceedsPortfolioRisk(total_risk) == total_risk > MaxPortfolioRisk

\* symbols = [idea.symbol ...]; len(set(symbols)) < len(symbols)
SymbolRepeats(ideas) ==
    Cardinality({ideas[i].symbol : i \in 1..Len(ideas)}) < Len(ideas)

Recommendations(ideas) ==
    (IF ExceedsPortfolioRisk(TotalRisk(ideas))
       THEN <<"Total portfolio risk exceeds maximum">> ELSE <<>>) \o
    (IF SymbolRepeats(ideas)
       THEN <<"Multiple positions in same symbol increases concentration risk">>
       ELSE <<>>)

RiskReport(ideas) ==
    IF ideas = <<>>
      THEN [total_risk |-> 0, recommendations |-> <<"No active positions">>]
      ELSE [total_risk_percent |-> TotalRisk(ideas),
            total_exposure |-> TotalExposure(ideas),
            position_count |-> Len(ideas),
            avg_confidence |-> AvgConfidence(ideas),
            recommendations |-> Recommendations(ideas)]

InitReport ==
    /\ trade_ideas \in ReportInputs
    /\ risk_report = None
    /\ reportPc = "start"
    /\ RiskIdle
    /\ BatchIdle
    /\ SigIdle
    /\ AnalyzerIdle
    /\ SizeIdle
    /\ AngelIdle

GenerateRiskReport ==
    /\ reportPc = "start"
    /\ risk_report' = RiskReport(trade_ideas)
    /\ reportPc' = "returned"
    /\ UNCHANGED trade_ideas
    /\ UNCHANGED <<riskVars, batchVars, sigVars, taVars, sizeVars, angelVars>>

NextReport == GenerateRiskReport

SpecReport == InitReport /\ [][NextReport]_vars

-----------------------------------------------------------------------------
(* RiskManagementEngine.calculate_optimal_position_size(entry_price,        *)
(* stop_loss, risk_profile, confidence).  The quotients are exact:          *)
(* adjusted_risk_amount / risk_per_share is                                 *)
(* portfolio_value * max_daily_risk_percent * confidence                    *)
(* / (10000 * risk_per_share), and portfolio_value * 0.20 / entry_price is  *)
(* portfolio_value / (5 * entry_price).                                     *)

\* max() of two ints
MaxOf(a, b) == IF a > b THEN a ELSE b

\* risk_per_share = abs(entry_price - stop_loss)
RiskPerShare(entry, stop) == Abs(entry - stop)

\* The two divisions: by risk_per_share and by entry_price.
SizeRaises(entry, stop) == RiskPerShare(entry, stop) = 0 \/ entry = 0

\* position_size = int(adjusted_risk_amount / risk_per_share)
SharesByRisk(entry, stop, profile, conf) ==
    IntTrunc(profile.portfolio_value * profile.max_daily_risk_percent * conf,
             10000 * RiskPerShare(entry, stop))

\* max_shares_by_portfolio = int((portfolio_value * 0.20) / entry_price)
MaxSharesByPortfolio(entry, profile) ==
    IntTrunc(profile.portfolio_value, 5 * entry)

\* return max(min(position_size, max_shares_by_portfolio), 1)
OptimalPositionSize(entry, stop, profile, conf) ==
    MaxOf(Min(SharesByRisk(entry, stop, profile, conf),
                MaxSharesByPortfolio(entry, profile)),
          1)

SizeEntries == {0, 10, 100, 50000}

SizeStops == {0, 9, 95, 100}

SizeConfidences == {0, 60, 100}

InitSize ==
    /\ entry_price \in SizeEntries
    /\ stop_loss \in SizeStops
    /\ confidence \in SizeConfidences
    /\ risk_profile \in RiskProfiles
    /\ position_size = None
    /\ sizePc = "call"
    /\ trade_data = None /\ trade_idea = None
    /\ response = "pending" /\ is_valid = TRUE /\ warnings = <<>>
    /\ riskPc = "idle"
    /\ BatchIdle
    /\ SigIdle
    /\ AnalyzerIdle
    /\ ReportIdle
    /\ AngelIdle

CalculateOptimalPositionSize ==
    /\ sizePc = "call"
    /\ IF SizeRaises(entry_price, stop_loss)
         THEN sizePc' = "raised" /\ UNCHANGED position_size
         ELSE /\ position_size' =
                    [shares |-> OptimalPositionSize(entry_price, stop_loss,
                                                    risk_profile, confidence)]
              /\ sizePc' = "returned"
    /\ UNCHANGED <<entry_price, stop_loss, confidence>>
    /\ UNCHANGED <<riskVars, batchVars, sigVars, taVars, reportVars, angelVars>>

NextSize == CalculateOptimalPositionSize

SpecSize == InitSize /\ [][NextSize]_vars

-----------------------------------------------------------------------------
(* AngelOneService.authenticate_with_retry.  The login endpoint is the      *)
(* environment: each request gets one of the replies of login_server.  The  *)
(* methods are async but await nothing that suspends (requests and          *)
(* time.sleep block), so a call runs to its end without interleaving.       *)

\* A stored token.
Token(v) == [value |-> v]

\* "if not self.access_token": None and "" are both falsy.
TokenSet(t) == t # None /\ t.value # ""

\* generate_totp_with_time_drift: the codes for the current time and for
\* 30 s before, 30 s after, 60 s before and 60 s after it, in this order.
TotpCodes == <<0, -30, 30, -60, 60>>

\* The replies to a login request.  "accepted..." is HTTP 200 with a true
\* status: with the three tokens, without feedToken, without refreshToken,
\* without jwtToken, and with an empty jwtToken.  "rejected_totp" and
\* "rejected_other" are HTTP 200 with a false status and a message that
\* mentions TOTP or does not.  "http_error" is another status code and
\* "exception" a request that raises (timeout, body that is not JSON).
AcceptedReplies ==
    {"accepted", "accepted_no_feed", "accepted_no_refresh", "accepted_no_jwt",
     "accepted_empty_jwt"}

LoginReplies ==
    AcceptedReplies \cup {"rejected_totp", "rejected_other", "http_error", "exception"}

\* self.access_token = data['data']['jwtToken']: the assignment is reached
\* for every accepted reply that has the field.
AccessTokenAfter(reply, old) ==
    CASE reply \in {"accepted", "accepted_no_feed", "accepted_no_refresh"} ->
            Token("jwt_new")
      [] reply = "accepted_empty_jwt" -> Token("")
      [] OTHER -> old

\* self.refresh_token = data['data']['refreshToken']: reached after the
\* first assignment, for a reply that has both fields.
RefreshTokenAfter(reply, old) ==
    IF reply \in {"accepted", "accepted_no_feed", "accepted_empty_jwt"}
      THEN Token("refresh_new") ELSE old

\* self.feed_token = data['data'].get('feedToken'): None without the field.
FeedTokenAfter(reply, old) ==
    CASE reply \in {"accepted", "accepted_empty_jwt"} -> Token("feed_new")
      [] reply = "accepted_no_feed" -> None
      [] OTHER -> old

\* The reply leads to "return {success: True, ...}".
LoginSucceeds(reply) == reply \in {"accepted", "accepted_no_feed", "accepted_empty_jwt"}

\* The reply leads to "return {success: False, error: error_msg}".
LoginBreaksEarly(reply) == reply = "rejected_other"

AuthSuccess(n, code) ==
    [success |-> TRUE, attempt |-> n, totp_used |-> code]

AuthFailure(msg) == [success |-> FALSE, error |-> msg]

AuthAllFailed(n) ==
    [success |-> FALSE, error |-> "Authentication failed with all TOTP codes",
     attempts |-> n]

\* The stored tokens before a call: none, or those of an earlier login.
StoredTokens ==
    {<<None, None, None>>,
     <<Token("jwt_old"), Token("refresh_old"), Token("feed_old")>>}

InitAuth ==
    /\ \E stored \in StoredTokens :
          /\ access_token = stored[1]
          /\ refresh_token = stored[2]
          /\ feed_token = stored[3]
    /\ login_server = LoginReplies
    /\ totp_codes = <<>>
    /\ attempt = 1
    /\ login_log = <<>>
    /\ tokens_before = <<access_token, refresh_token, feed_token>>
    /\ auth_result = None
    /\ authPc = "start"
    /\ RiskIdle
    /\ BatchIdle
    /\ SigIdle
    /\ AnalyzerIdle
    /\ ReportIdle
    /\ SizeIdle
    /\ LtpIdle
    /\ MultiIdle

\* Lines 148-152: the codes are generated; pyotp raising (a secret that is
\* not base32) goes to the outer handler.
AuthStart ==
    /\ authPc = "start"
    /\ tokens_before' = <<access_token, refresh_token, feed_token>>
    /\ login_log' = <<>>
    /\ attempt' = 1
    /\ \E generated \in BOOLEAN :
          IF generated
            THEN /\ totp_codes' = TotpCodes
                 /\ authPc' = "loop"
                 /\ auth_result' = None
            ELSE /\ totp_codes' = <<>>
                 /\ authPc' = "returned"
                 /\ auth_result' = AuthFailure("TOTP generation failed")
    /\ UNCHANGED <<access_token, refresh_token, feed_token, login_server>>
    /\ UNCHANGED <<ltpVars, multiVars>>
    /\ UNCHANGED <<riskVars, batchVars, sigVars, taVars, reportVars, sizeVars>>

\* Lines 157-205: one pass of the loop, with the request and its reply.
LoginAttempt ==
    /\ authPc = "loop"
    /\ attempt <= Len(totp_codes)
    /\ \E reply \in login_server :
          /\ login_log' = Append(login_log, [totp |-> totp_codes[attempt], reply |-> reply])
          /\ access_token' = AccessTokenAfter(reply, access_token)
          /\ refresh_token' = RefreshTokenAfter(reply, refresh_token)
          /\ feed_token' = FeedTokenAfter(reply, feed_token)
          /\ IF LoginSucceeds(reply)
               THEN /\ auth_result' = AuthSuccess(attempt, totp_codes[attempt])
                    /\ authPc' = "returned"
                    /\ UNCHANGED attempt
               ELSE IF LoginBreaksEarly(reply)
               THEN /\ auth_result' = AuthFailure("Invalid MPIN")
                    /\ authPc' = "returned"
                    /\ UNCHANGED attempt
               ELSE /\ attempt' = attempt + 1
                    /\ UNCHANGED <<auth_result, authPc>>
    /\ UNCHANGED <<login_server, totp_codes, tokens_before>>
    /\ UNCHANGED <<ltpVars, multiVars>>
    /\ UNCHANGED <<riskVars, batchVars, sigVars, taVars, reportVars, sizeVars>>

\* Lines 207-212: all codes used.
AuthExhausted ==
    /\ authPc = "loop"
    /\ attempt > Len(totp_codes)
    /\ auth_result' = AuthAllFailed(Len(totp_codes))
    /\ authPc' = "returned"
    /\ UNCHANGED <<access_token, refresh_token, feed_token, login_server,
                   totp_codes, attempt, login_log, tokens_before>>
    /\ UNCHANGED <<ltpVars, multiVars>>
    /\ UNCHANGED <<riskVars, batchVars, sigVars, taVars, reportVars, sizeVars>>

NextAuth == AuthStart \/ LoginAttempt \/ AuthExhausted

SpecAuth == InitAuth /\ [][NextAuth]_vars

-----------------------------------------------------------------------------
(* AngelOneService.get_live_market_data(symbol).  authenticate() is         *)
(* authenticate_with_retry, run by the steps of NextAuth above.             *)

\* The symbols get_symbol_token finds a token for.
KnownSymbols == {"RELIANCE", "TCS"}

LtpSymbols == KnownSymbols \cup {"NOSUCH"}

\* The replies to a market-data request: HTTP 200 with status and data,
\* the same with a price that float() rejects, HTTP 200 without data,
\* another status code, and a request that raises.
LtpReplies == {"ok", "ok_bad_number", "no_data", "http_error", "exception"}

\* get_auth_headers(include_auth=True): the Authorization header is added
\* "if include_auth and self.access_token".
AuthorizationHeader(token) == IF TokenSet(token) THEN token ELSE None

LtpSuccess(symbol) ==
    [success |-> TRUE, data |-> [symbol |-> symbol, source |-> "angel_one_live"]]

LtpFailure(msg) == [success |-> FALSE, error |-> msg]

\* What the call returns for a reply.
LtpResultFor(symbol, reply) ==
    CASE reply = "ok" -> LtpSuccess(symbol)
      [] reply = "ok_bad_number" -> LtpFailure("could not convert string to float")
      [] reply = "no_data" -> LtpFailure("No data available")
      [] reply = "http_error" -> LtpFailure("API Error")
      [] reply = "exception" -> LtpFailure("request failed")

InitLtp ==
    /\ \E stored \in StoredTokens :
          /\ access_token = stored[1]
          /\ refresh_token = stored[2]
          /\ feed_token = stored[3]
    /\ login_server = LoginReplies
    /\ totp_codes = <<>>
    /\ attempt = 1
    /\ login_log = <<>>
    /\ tokens_before = <<access_token, refresh_token, feed_token>>
    /\ auth_result = None
    /\ authPc = "idle"
    /\ ltp_symbol \in LtpSymbols
    /\ auth_calls = 0
    /\ ltp_log = <<>>
    /\ ltp_result = None
    /\ ltpPc = "start"
    /\ RiskIdle
    /\ BatchIdle
    /\ SigIdle
    /\ AnalyzerIdle
    /\ ReportIdle
    /\ SizeIdle
    /\ MultiIdle

\* Lines 227-228: "if not self.access_token: auth_result = await
\* self.authenticate()".
LtpStart ==
    /\ ltpPc = "start"
    /\ IF TokenSet(access_token)
         THEN /\ ltpPc' = "fetch"
              /\ UNCHANGED <<authPc, auth_calls>>
         ELSE /\ authPc' = "start"
              /\ auth_calls' = auth_calls + 1
              /\ ltpPc' = "auth"
    /\ UNCHANGED <<access_token, refresh_token, feed_token, login_server,
                   totp_codes, attempt, login_log, tokens_before, auth_result>>
    /\ UNCHANGED <<ltp_symbol, ltp_log, ltp_result>>
    /\ UNCHANGED multiVars
    /\ UNCHANGED <<riskVars, batchVars, sigVars, taVars, reportVars, sizeVars>>

\* Lines 229-230: authenticate has returned; a failure is returned as it is.
LtpAfterAuth ==
    /\ ltpPc = "auth"
    /\ authPc = "returned"
    /\ authPc' = "idle"
    /\ IF auth_result.success
         THEN ltpPc' = "fetch" /\ UNCHANGED ltp_result
         ELSE ltpPc' = "returned" /\ ltp_result' = auth_result
    /\ UNCHANGED <<access_token, refresh_token, feed_token, login_server,
                   totp_codes, attempt, login_log, tokens_before, auth_result>>
    /\ UNCHANGED <<ltp_symbol, auth_calls, ltp_log>>
    /\ UNCHANGED multiVars
    /\ UNCHANGED <<riskVars, batchVars, sigVars, taVars, reportVars, sizeVars>>

\* Lines 232-299: the symbol token, the request and the result.
FetchLtp ==
    /\ ltpPc = "fetch"
    /\ IF ltp_symbol \notin KnownSymbols
         THEN /\ ltp_result' = LtpFailure("Symbol not found")
              /\ UNCHANGED ltp_log
         ELSE \E reply \in LtpReplies :
                /\ ltp_log' = Append(ltp_log,
                                     [symbol |-> ltp_symbol,
                                      authorization |-> AuthorizationHeader(access_token),
                                      reply |-> reply])
                /\ ltp_result' = LtpResultFor(ltp_symbol, reply)
    /\ ltpPc' = "returned"
    /\ UNCHANGED <<ltp_symbol, auth_calls>>
    /\ UNCHANGED <<authVars, multiVars>>
    /\ UNCHANGED <<riskVars, batchVars, sigVars, taVars, reportVars, sizeVars>>

NextLtp == LtpStart \/ NextAuth \/ LtpAfterAuth \/ FetchLtp

SpecLtp == InitLtp /\ [][NextLtp]_vars

-----------------------------------------------------------------------------
(* AngelOneService.get_multiple_ltp(symbols): one get_live_market_data call *)
(* per symbol, run by the steps of NextLtp above.                           *)

MaxLtpSymbols == 3

SymbolLists ==
    UNION {[1..n -> LtpSymbols] : n \in 0..MaxLtpSymbols}

\* The login servers of a batch call: each answers every request the same way.
MultiServers ==
    {{"accepted"}, {"accepted_empty_jwt"}, {"rejected_other"}, {"http_error"}}

\* Lines 315-316: "if symbol_data.get("success"): results[symbol] =
\* symbol_data["data"]"; fetched is the results dict.
FetchedData_KeepsFailures(fetched, symbol, symbol_data) ==
    [s \in DOMAIN fetched \cup {symbol} |->
        IF s = symbol
          THEN (IF symbol_data.success THEN symbol_data.data ELSE symbol_data)
          ELSE fetched[s]]

FetchedData(fetched, symbol, symbol_data) ==
    IF symbol_data.success
      THEN [s \in DOMAIN fetched \cup {symbol} |->
              IF s = symbol THEN symbol_data.data ELSE fetched[s]]
      ELSE fetched

MultiResult(fetched) ==
    [success |-> TRUE, data |-> fetched, count |-> Cardinality(DOMAIN fetched)]

InitMulti ==
    /\ \E stored \in StoredTokens :
          /\ access_token = stored[1]
          /\ refresh_token = stored[2]
          /\ feed_token = stored[3]
    /\ login_server \in MultiServers
    /\ totp_codes = <<>>
    /\ attempt = 1
    /\ login_log = <<>>
    /\ tokens_before = <<access_token, refresh_token, feed_token>>
    /\ auth_result = None
    /\ authPc = "idle"
    /\ LtpIdle
    /\ ltp_symbols \in SymbolLists
    /\ multi_idx = 1
    /\ multi_data = <<>>
    /\ fetch_log = <<>>
    /\ multi_auth_result = None
    /\ multi_result = None
    /\ multiPc = "start"
    /\ RiskIdle
    /\ BatchIdle
    /\ SigIdle
    /\ AnalyzerIdle
    /\ ReportIdle
    /\ SizeIdle

\* Lines 304-305: "if not self.access_token: auth_result = await
\* self.authenticate()".
MultiStart ==
    /\ multiPc = "start"
    /\ IF TokenSet(access_token)
         THEN multiPc' = "loop" /\ UNCHANGED authPc
         ELSE multiPc' = "auth" /\ authPc' = "start"
    /\ UNCHANGED <<access_token, refresh_token, feed_token, login_server,
                   totp_codes, attempt, login_log, tokens_before, auth_result>>
    /\ UNCHANGED <<ltp_symbols, multi_idx, multi_data, fetch_log, multi_auth_result,
                   multi_result>>
    /\ UNCHANGED ltpVars
    /\ UNCHANGED <<riskVars, batchVars, sigVars, taVars, reportVars, sizeVars>>

\* Lines 305-307: authenticate has returned; a failure is returned as it is.
MultiAfterAuth ==
    /\ multiPc = "auth"
    /\ ltpPc = "idle"
    /\ authPc = "returned"
    /\ authPc' = "idle"
    /\ multi_auth_result' = auth_result
    /\ IF auth_result.success
         THEN multiPc' = "loop" /\ UNCHANGED multi_result
         ELSE multiPc' = "returned" /\ multi_result' = auth_result
    /\ UNCHANGED <<access_token, refresh_token, feed_token, login_server,
                   totp_codes, attempt, login_log, tokens_before, auth_result>>
    /\ UNCHANGED <<ltp_symbols, multi_idx, multi_data, fetch_log>>
    /\ UNCHANGED ltpVars
    /\ UNCHANGED <<riskVars, batchVars, sigVars, taVars, reportVars, sizeVars>>

\* Lines 312-314: the next symbol's get_live_market_data call starts.
MultiFetch ==
    /\ multiPc = "loop"
    /\ multi_idx <= Len(ltp_symbols)
    /\ ltp_symbol' = ltp_symbols[multi_idx]
    /\ ltp_result' = None
    /\ ltpPc' = "start"
    /\ multiPc' = "fetch"
    /\ UNCHANGED <<auth_calls, ltp_log>>
    /\ UNCHANGED <<ltp_symbols, multi_idx, multi_data, fetch_log, multi_auth_result,
                   multi_result>>
    /\ UNCHANGED authVars
    /\ UNCHANGED <<riskVars, batchVars, sigVars, taVars, reportVars, sizeVars>>

\* Lines 314-319: the call has returned; its data is kept when it succeeded,
\* and the loop goes on to the next symbol either way.
MultiAfterFetch ==
    /\ multiPc = "fetch"
    /\ ltpPc = "returned"
    /\ multi_data' = FetchedData(multi_data, ltp_symbol, ltp_result)
    /\ fetch_log' = Append(fetch_log,
                           [symbol |-> ltp_symbol, success |-> ltp_result.success])
    /\ multi_idx' = multi_idx + 1
    /\ ltpPc' = "idle"
    /\ multiPc' = "loop"
    /\ UNCHANGED <<ltp_symbol, auth_calls, ltp_log, ltp_result>>
    /\ UNCHANGED <<ltp_symbols, multi_auth_result, multi_result>>
    /\ UNCHANGED authVars
    /\ UNCHANGED <<riskVars, batchVars, sigVars, taVars, reportVars, sizeVars>>

\* Lines 325-330: the loop is over.
MultiReturn ==
    /\ multiPc = "loop"
    /\ multi_idx > Len(ltp_symbols)
    /\ multi_result' = MultiResult(multi_data)
    /\ multiPc' = "returned"
    /\ UNCHANGED <<ltp_symbols, multi_idx, multi_data, fetch_log, multi_auth_result>>
    /\ UNCHANGED <<authVars, ltpVars>>
    /\ UNCHANGED <<riskVars, batchVars, sigVars, taVars, reportVars, sizeVars>>

NextMulti ==
    \/ MultiStart
    \/ MultiAfterAuth
    \/ MultiFetch
    \/ NextLtp
    \/ MultiAfterFetch
    \/ MultiReturn

SpecMulti == InitMulti /\ [][NextMulti]_vars

-----------------------------------------------------------------------------
(* Claims about the trade-idea pipeline, checked under SpecRisk. *)

\* Every price and the portfolio value of the request are positive.
PositiveInputs ==
    /\ trade_data.entry > 0 /\ trade_data.stop_loss > 0
    /\ trade_data.targets[1] > 0 /\ trade_data.targets[2] > 0
    /\ risk_profile.portfolio_value > 0

\* A request nobody would call malformed: positive prices and portfolio
\* value and a positive risk percent.
WellFormedInputs == PositiveInputs /\ trade_data.risk_percent > 0

\* C1: for a proposal with entry # stop whose own prices give
\* |target1 - entry| / |entry - stop| < 1.5, a returned validation has
\* is_valid = FALSE.  (Stated for well-formed requests with a position of at
\* least one share, where nothing else is in question.)
C1_LowRiskRewardIsInvalid ==
    (/\ response = "result"
     /\ WellFormedInputs
     /\ trade_idea.position_size_lots_shares >= 1
     /\ trade_data.entry # trade_data.stop_loss
     /\ RatLt(Abs(trade_data.targets[1] - trade_data.entry),
              Abs(trade_data.entry - trade_data.stop_loss), 3, 2))
    => is_valid = FALSE

\* C2: a returned validation is valid exactly when the stored risk/reward is
\* at least 1.5, the position is at most 20% of the portfolio and the trade's
\* risk percent is at most the profile's daily limit; the stop-distance and
\* confidence warnings play no part.
C2_ValidIffNoGatingCheckFires ==
    response = "result" =>
        (is_valid <=>
            /\ trade_idea.risk_reward_t1 >= 150
            /\ ~RatGt(trade_idea.position_size_lots_shares * trade_idea.entry,
                      risk_profile.portfolio_value, 20, 100)
            /\ trade_idea.risk_percent <= risk_profile.max_daily_risk_percent)

\* A valid result that carries the stop-distance and the confidence warning.
C2_Witness ==
    /\ response = "result"
    /\ is_valid
    /\ warnings = <<"stop_wide", "low_confidence">>

\* C3: a proposal with entry = stop never gets a validation result; its
\* request ends in an error.
C3_EntryEqualsStopIsError ==
    trade_data.entry = trade_data.stop_loss =>
        /\ response # "result"
        /\ riskPc = "done" => response = "error"

\* A finished request with entry = stop, answered with the error.
C3_Witness ==
    /\ riskPc = "done"
    /\ trade_data.entry = trade_data.stop_loss
    /\ trade_data.entry > 0
    /\ response = "error"

\* C4: a request with a zero or negative entry, stop, target or portfolio
\* value ends in an error, never in a validation result.
C4_NonPositiveIsError ==
    (/\ riskPc = "done"
     /\ ~PositiveInputs)
    => response = "error"

\* The warning of each check, in the order of the checks.
CheckOrder ==
    <<"stop_tight", "stop_wide", "risk_reward", "position_size",
      "risk_percent", "low_confidence">>

\* C5: a returned validation holds, in the order of the checks, the warning
\* of exactly those checks whose own condition holds, whatever the other
\* checks found: at most one per check, at most five.
C5_AllChecksRunInOrder ==
    response = "result" =>
        LET Fired(tag) ==
                CASE tag = "stop_tight" -> StopTooTight(trade_idea)
                  [] tag = "stop_wide" ->
                        ~StopTooTight(trade_idea) /\ StopTooWide(trade_idea)
                  [] tag = "risk_reward" -> RiskRewardFails(trade_idea)
                  [] tag = "position_size" ->
                        PositionSizeFails(trade_idea, risk_profile)
                  [] tag = "risk_percent" ->
                        RiskPercentFails(trade_idea, risk_profile)
                  [] tag = "low_confidence" -> LowConfidence(trade_idea)
        IN  /\ warnings = SelectSeq(CheckOrder, Fired)
            /\ Len(warnings) <= 5

\* A result in which all five checks warned.
C5_Witness ==
    /\ response = "result"
    /\ warnings = <<"stop_wide", "risk_reward", "position_size",
                    "risk_percent", "low_confidence">>

\* C6: the position size of a built TradeIdea is
\* max(1, floor((portfolio_value * risk_percent / 100) / |entry - stop|)).
\* (Stated for well-formed requests.)
C6_PositionSizeAtLeastOne ==
    (/\ trade_idea # None
     /\ WellFormedInputs)
    => LET size == (risk_profile.portfolio_value * trade_data.risk_percent)
                       \div (100 * Abs(trade_data.entry - trade_data.stop_loss))
       IN  trade_idea.position_size_lots_shares = IF size < 1 THEN 1 ELSE size

-----------------------------------------------------------------------------
(* Claims about batch_analysis, checked under SpecBatch and SpecBatchFair. *)

\* The symbols of the request are pairwise different.
DistinctSymbols ==
    \A i, j \in 1..Len(symbols) : symbols[i] = symbols[j] => i = j

IsErrorEntry(e) == e = {"error"}

IsFullResult(e) == e = {"trade_idea", "validation"}

ErrorSymbols == {s \in DOMAIN results : IsErrorEntry(results[s])}

FailedPositions == {i \in 1..Len(log) : log[i]}

\* The last position among the first 10 at which symbol s was requested.
LastPosition(s) ==
    CHOOSE i \in 1..Len(symbols) :
        /\ i <= 10 /\ symbols[i] = s
        /\ \A j \in 1..Len(symbols) : (j <= 10 /\ symbols[j] = s) => j <= i

-----------------------------------------------------------------------------
(* Claims about generate_signals, checked under SpecSig. *)

\* A bundle has been returned for which the rules were evaluated (a list of
\* fewer than two closes returns the empty bundle before any rule).
RulesEvaluated == Len(closes) >= 2 /\ sigPc = "done"

\* The signals of the bundle that carry the RSI tag.
RsiSignals == SelectSeq(signals, LAMBDA sg : sg.indicator = "RSI")

\* rsi lies in [lo, hi].
RsiWithin(lo, hi) == ~RLt(rsi, Rat(lo, 1)) /\ ~RLt(Rat(hi, 1), rsi)

\* C9 as stated: RSI < 30 gives BUY/HIGH, RSI > 70 SELL/HIGH, 55 <= RSI <= 70
\* BUY/MEDIUM, 30 <= RSI <= 45 SELL/MEDIUM, 45 < RSI < 55 no RSI signal.
C9_RsiBandsClosedAt45And55 ==
    (RulesEvaluated /\ rsi # None /\ RsiWithin(0, 100)) =>
        RsiSignals =
            IF RLt(rsi, Rat(30, 1)) THEN <<Signal("BUY", "HIGH", "RSI")>>
            ELSE IF RLt(Rat(70, 1), rsi) THEN <<Signal("SELL", "HIGH", "RSI")>>
            ELSE IF RsiWithin(55, 70) THEN <<Signal("BUY", "MEDIUM", "RSI")>>
            ELSE IF RsiWithin(30, 45) THEN <<Signal("SELL", "MEDIUM", "RSI")>>
            ELSE <<>>

\* C9 amended: for at least two closes, RSI < 30 gives BUY/HIGH, RSI > 70 SELL/HIGH, 55 < RSI <= 70
\* BUY/MEDIUM, 30 <= RSI < 45 SELL/MEDIUM, and 45 <= RSI <= 55 (both ends
\* included) no RSI signal.
C9_RsiBandsOpenAt45And55 ==
    (RulesEvaluated /\ rsi # None /\ RsiWithin(0, 100)) =>
        RsiSignals =
            IF RLt(rsi, Rat(30, 1)) THEN <<Signal("BUY", "HIGH", "RSI")>>
            ELSE IF RLt(Rat(70, 1), rsi) THEN <<Signal("SELL", "HIGH", "RSI")>>
            ELSE IF RLt(Rat(55, 1), rsi) THEN <<Signal("BUY", "MEDIUM", "RSI")>>
            ELSE IF RLt(rsi, Rat(45, 1)) THEN <<Signal("SELL", "MEDIUM", "RSI")>>
            ELSE <<>>

\* A returned bundle for an RSI of exactly 55, without an RSI signal.
C9_Witness ==
    /\ sigPc = "done"
    /\ rsi = Rat(55, 1)
    /\ RsiSignals = <<>>

\* The place of a rule in the order of evaluation (0: not one of the four).
RuleRank(tag) ==
    CASE tag = "RSI" -> 1
      [] tag = "SMA_TREND" -> 2
      [] tag = "MACD" -> 3
      [] tag = "BOLLINGER" -> 4
      [] OTHER -> 0

\* The signals of the four rules, in the order they have in the bundle.
RuleSignals == SelectSeq(signals, LAMBDA sg : RuleRank(sg.indicator) > 0)

\* In the bundle the signals of the four rules stand in the order RSI,
\* moving average, MACD, Bollinger, at most one of each.
RuleSignalsOrdered ==
    \A i, j \in 1..Len(RuleSignals) :
        i < j => RuleRank(RuleSignals[i].indicator) < RuleRank(RuleSignals[j].indicator)

\* C10: the bundle always holds the signals of the rules RSI, moving
\* average, MACD, Bollinger in that order, at most one per rule, and a step
\* of generate_signals only appends: at most one signal, the earlier ones
\* unchanged.
C10_RulesAppendInFixedOrder ==
    /\ []RuleSignalsOrdered
    /\ [][/\ Len(signals') \in {Len(signals), Len(signals) + 1}
          /\ SubSeq(signals', 1, Len(signals)) = signals]_vars

\* A returned bundle with a signal of each of the four rules.
C10_Witness ==
    /\ sigPc = "done"
    /\ Len(RuleSignals) = 4

-----------------------------------------------------------------------------
(* Claims about determine_trend, checked under SpecTrend. *)

\* determine_trend has returned a label.
TrendReturned == trendPc = "done"

\* The label of the comparison of the two five-close means, for a positive
\* older mean: more than 1% up, more than 1% down, or neither.
MeansLabel ==
    IF 100 * RecentSum(closes) > 101 * OlderSum(closes) THEN "BULLISH"
    ELSE IF 100 * RecentSum(closes) < 99 * OlderSum(closes) THEN "BEARISH"
    ELSE "SIDEWAYS"

\* C11: for a series with EMA20 and EMA50 present (50 closes or more), the
\* returned trend is BULLISH if price > EMA20 > EMA50, BEARISH if
\* price < EMA20 < EMA50, and else the label of the comparison of the mean of
\* the last 5 closes with the mean of the 5 before: BULLISH above +1%,
\* BEARISH below -1%, SIDEWAYS otherwise (exactly 1% included).
C11_TrendFromEmaAlignment ==
    (TrendReturned /\ Len(closes) >= 50) =>
        LET price == Rat(CurrentPrice, 1)
            e20 == CalculateEma(closes, 20)
            e50 == CalculateEma(closes, 50)
        IN  trend = IF RLt(e20, price) /\ RLt(e50, e20) THEN "BULLISH"
                    ELSE IF RLt(price, e20) /\ RLt(e20, e50) THEN "BEARISH"
                    ELSE MeansLabel

\* C12 as stated: a returned trend is UNKNOWN whenever a moving average is
\* absent; no other label comes from a series with an absent average.
C12_UnknownWhenAveragesAbsent ==
    (TrendReturned /\ (sma_20 = None \/ sma_50 = None)) => trend = "UNKNOWN"

\* C12 amended: a returned trend is UNKNOWN exactly for a series of fewer
\* than 10 closes, which never raises; for 10 closes or more the returned
\* label is BULLISH, BEARISH or SIDEWAYS, also when an average is absent.
C12_UnknownIffFewerThanTenCloses ==
    /\ TrendReturned =>
          /\ trend = "UNKNOWN" <=> Len(closes) < 10
          /\ Len(closes) >= 10 => trend \in {"BULLISH", "BEARISH", "SIDEWAYS"}
    /\ Len(closes) < 10 => trendPc \in {"start", "done"}

\* A series of 20 closes, its 50-period average absent, labelled BULLISH.
C12_Witness ==
    /\ TrendReturned
    /\ Len(closes) = 20
    /\ sma_20 # None
    /\ sma_50 = None
    /\ trend = "BULLISH"

-----------------------------------------------------------------------------
(* Claims about calculate_rsi, checked under SpecRsi. *)

\* C15: a returned RSI(14) is absent for every series of fewer than 15
\* closes; for 15 closes or more, none negative, it is present and lies in
\* [0, 100].
C15_RsiAbsentBelow15ElseWithin0And100 ==
    rsiPc = "returned" =>
        /\ Len(closes) < 15 => rsi = None
        /\ (Len(closes) >= 15 /\ \A i \in 1..Len(closes) : closes[i] >= 0) =>
              /\ rsi # None
              /\ ~RLt(rsi, Rat(0, 1))
              /\ ~RLt(Rat(100, 1), rsi)

\* An RSI strictly between 0 and 100 from a series with gains and losses
\* whose closes fall on the whole.
C15_Witness ==
    /\ rsiPc = "returned"
    /\ Len(closes) >= 15
    /\ closes[Len(closes)] < closes[1]
    /\ rsi # None
    /\ RLt(Rat(0, 1), rsi)
    /\ RLt(rsi, Rat(100, 1))

-----------------------------------------------------------------------------
(* Claims about analyze_trend, checked under SpecAnalyze. *)

\* C13: generate_signals and determine_trend never raise.
C13_SignalGenerationNeverRaises ==
    /\ sigPc # "raised"
    /\ trendPc # "raised"

\* The fields of the indicator set and the closes each one needs.
IndicatorFields ==
    {"sma_20", "sma_50", "ema_20", "rsi", "macd", "bb_upper", "bb_lower"}

Lookback(field) ==
    CASE field = "sma_20" -> 20
      [] field = "sma_50" -> 50
      [] field = "ema_20" -> 20
      [] field = "rsi" -> 15
      [] field = "macd" -> 26
      [] field = "bb_upper" -> 20
      [] field = "bb_lower" -> 20

\* analyze_trend has returned the full result.
ReturnedResult == anPc = "returned" /\ result.success

\* C14: in a returned indicator set a field is absent exactly when the
\* series is shorter than the field's lookback; so a computed 0 (an RSI of 0
\* after 14 losses, an average of 0) is reported as 0, not as absent.
C14_AbsentIffShorterThanLookback ==
    ReturnedResult =>
        \A field \in IndicatorFields :
            result.indicators[field] = None <=> Len(closes) < Lookback(field)

\* The candles are lists with a positive close.
WellFormedCandles ==
    /\ data.kind = "candles"
    /\ \A i \in 1..Len(data.candles) :
          data.candles[i].form = "list" /\ data.candles[i].close > 0

\* C16: for at least 2 (well-formed) candles the call returns a result, not
\* an error, in which every indicator whose lookback the series satisfies is
\* present and the others are absent.
C16_PartialResultFromTwoCandles ==
    (anPc = "returned" /\ WellFormedCandles /\ Len(data.candles) >= 2) =>
        /\ result.success
        /\ \A field \in IndicatorFields :
              result.indicators[field] = None <=>
                  Len(data.candles) < Lookback(field)

\* The result is the full result (success, with price, indicators, signals
\* and trend and without "error") or one error (failure with a message and
\* nothing else).
FullResultOrSingleError ==
    IF result.success
      THEN DOMAIN result = {"success", "current_price", "indicators",
                            "signals", "trend", "timestamp"}
      ELSE DOMAIN result = {"success", "error"}

\* The call stands at a line from which it goes on: in its own body, in
\* generate_signals or in determine_trend, or on the way to its handler.
CallGoesOn ==
    \/ anPc \in {"start", "extract", "indicators", "raised"}
    \/ /\ anPc = "signals"
       /\ sigPc \in {"start", "rsi", "ma", "macd", "bb", "momentum", "done", "raised"}
    \/ /\ anPc = "trend"
       /\ trendPc \in {"start", "ma", "momentum", "done", "raised"}

\* C17: for every input, no exception leaves the call; until it returns
\* nothing is returned and it goes on; and what it returns is either the
\* full result or a single error, never both.
C17_FullResultOrSingleError ==
    /\ anPc # "uncaught"
    /\ anPc # "returned" => result = None /\ CallGoesOn
    /\ anPc = "returned" => FullResultOrSingleError

\* A call on a candle whose close is not a number, returned as an error.
C17_Witness ==
    /\ anPc = "returned"
    /\ exc = "ValueError"
    /\ result = ErrorResult("ValueError")

\* Every close of the series is the same.
FlatSeries == \A i \in 1..Len(closes) : closes[i] = closes[1]

\* C20: whenever the last 14 losses sum to 0, the computed RSI is 100 and the
\* RSI rule appends SELL/HIGH; and for a flat series of 50 closes or more
\* both averages equal the close, so no alignment holds and a returned trend
\* is the SIDEWAYS of the comparison of the means.
C20_ZeroLossRsiIs100AndSells ==
    /\ (sigPc # "idle" /\ Len(closes) >= 15 /\ AvgLossIsZero(closes, 14)) =>
          /\ rsi = Rat(100, 1)
          /\ sigPc \in {"ma", "macd", "bb", "momentum", "done"} =>
                RsiSignals = <<Signal("SELL", "HIGH", "RSI")>>
    /\ (sigPc # "idle" /\ Len(closes) >= 50 /\ FlatSeries) =>
          /\ sma_20 = Rat(closes[1], 1)
          /\ sma_50 = Rat(closes[1], 1)
          /\ MovingAverageTrend(CurrentPrice, sma_20, sma_50) = ""
          /\ trendPc = "done" => trend = "SIDEWAYS"

\* The full result for 60 closes at 100.
C20_Witness ==
    /\ ReturnedResult
    /\ closes = Run(60, 100)
    /\ rsi = Rat(100, 1)
    /\ result.signals = <<Signal("SELL", "HIGH", "RSI")>>
    /\ result.trend = "SIDEWAYS"

-----------------------------------------------------------------------------
(* Claims about generate_risk_report, checked under SpecReport. *)

\* The sum the report holds: "total_risk" for no trade, "total_risk_percent"
\* otherwise.
ReportedTotalRisk ==
    IF "total_risk" \in DOMAIN risk_report
      THEN risk_report.total_risk
      ELSE risk_report.total_risk_percent

HasRecommendation(text) ==
    \E i \in 1..Len(risk_report.recommendations) :
        risk_report.recommendations[i] = text

\* The sum of risk_percent over the trades, added up in a loop over the list.
RiskPercentSum ==
    LET sumTo[i \in 0..Len(trade_ideas)] ==
            IF i = 0 THEN 0 ELSE sumTo[i - 1] + trade_ideas[i].risk_percent
    IN  sumTo[Len(trade_ideas)]

\* C19: for every list of trades, the empty one included, the returned
\* report holds the sum of risk_percent, the total-risk warning exactly when
\* that sum exceeds 10 and the concentration warning exactly when two trades
\* have the same symbol; so neither depends on confidence or exposure.
C19_ReportSumsRiskAndWarns ==
    reportPc = "returned" =>
        /\ ReportedTotalRisk = RiskPercentSum
        /\ HasRecommendation("Total portfolio risk exceeds maximum")
              <=> RiskPercentSum > 10
        /\ HasRecommendation("Multiple positions in same symbol increases concentration risk")
              <=> \E i, j \in 1..Len(trade_ideas) :
                      i # j /\ trade_ideas[i].symbol = trade_ideas[j].symbol

\* Two trades on different symbols whose risks sum to exactly 10, with
\* different confidence and exposure: a report without any warning.
C19_Witness ==
    /\ reportPc = "returned"
    /\ Len(trade_ideas) = 2
    /\ RiskPercentSum = 10
    /\ trade_ideas[1].symbol # trade_ideas[2].symbol
    /\ trade_ideas[1].confidence # trade_ideas[2].confidence
    /\ trade_ideas[1].entry # trade_ideas[2].entry
    /\ risk_report.recommendations = <<>>

-----------------------------------------------------------------------------
(* Claims about the smoothing of calculate_rsi, checked under SpecRsi. *)

RECURSIVE Pow(_, _)
Pow(b, e) == IF e = 0 THEN 1 ELSE b * Pow(b, e - 1)

\* Wilder's smoothed average of xs after k updates, times n^(k+1): the sum
\* of the first n values seeds it, and each update
\* avg = (avg * (n - 1) + new) / n multiplies the scaled value by n - 1 and
\* adds n^k times the new value.
RECURSIVE WilderScaled(_, _, _)
WilderScaled(xs, n, k) ==
    IF k = 0 THEN Sum(FirstN(xs, n))
    ELSE (n - 1) * WilderScaled(xs, n, k - 1) + Pow(n, k) * xs[n + k]

\* The Wilder-smoothed RSI(n) of the whole series.
WilderRsi(prices, n) ==
    IF Len(prices) < n + 1 THEN None
    ELSE LET k == Len(prices) - 1 - n
             g == WilderScaled(Gains(prices), n, k)
             l == WilderScaled(Losses(prices), n, k)
         IN  IF l = 0 THEN Rat(100, 1) ELSE Norm(100 * g, g + l)

\* C21: for n + 1 = 15 closes or more the returned RSI is the Wilder-smoothed
\* RSI, seeded from the first 14 deltas and updated over every later delta.
C21_RsiIsWilderSmoothed ==
    (rsiPc = "returned" /\ Len(closes) >= RsiPeriod + 1) =>
        rsi = WilderRsi(closes, RsiPeriod)

-----------------------------------------------------------------------------
(* Claims about the MACD, checked under SpecAnalyze. *)

\* The MACD line after the first k closes: EMA12 - EMA26 at that step.
MacdLineAt(prices, k) ==
    RSub(CalculateEma(FirstN(prices, k), 12), CalculateEma(FirstN(prices, k), 26))

\* The series of MACD-line values, one for each step from the 26th close.
MacdLineSeries(prices) ==
    [i \in 1..(Len(prices) - 25) |-> MacdLineAt(prices, i + 25)]

\* The sum of a series of rationals.
RECURSIVE RSum(_)
RSum(xs) == IF xs = <<>> THEN Rat(0, 1) ELSE RAdd(Head(xs), RSum(Tail(xs)))

\* The EMA loop of calculate_ema over the rationals xs[i..j].
RECURSIVE REmaLoop(_, _, _, _, _)
REmaLoop(ema, xs, i, j, period) ==
    IF i > j THEN ema
    ELSE IF i = j
        THEN Norm(2 * xs[i].num * ema.den + (period - 1) * ema.num * xs[i].den,
                  (period + 1) * ema.den * xs[i].den)
    ELSE LET mid == (i + j) \div 2
             first == REmaLoop(ema, xs, i, mid, period)
         IN  IF first = None THEN None
             ELSE REmaLoop(first, xs, mid + 1, j, period)

\* The EMA of a series of at least period rationals, seeded with the mean
\* of the first period values.
REma(xs, period) ==
    LET seed == RSum(FirstN(xs, period))
    IN  REmaLoop(Norm(seed.num, period * seed.den), xs, period + 1, Len(xs), period)

\* C22: for a series with at least 9 MACD-line values (34 closes) the signal
\* line is the 9-period EMA of the MACD-line series, and the histogram is
\* the MACD line minus the signal line.
C22_SignalIsEma9OfMacdLine ==
    (macd_data # None /\ Len(closes) >= 34) =>
        /\ macd_data.signal = REma(MacdLineSeries(closes), 9)
        /\ macd_data.histogram = RSub(macd_data.macd, macd_data.signal)

\* The MACD signals of the bundle.
MacdSignals == SelectSeq(signals, LAMBDA sg : sg.indicator = "MACD")

\* The MACD rule has run in this call of analyze_trend.
MacdRuleDone ==
    /\ anPc \in {"signals", "trend", "returned"}
    /\ sigPc \in {"bb", "momentum", "done", "raised"}

\* C23: in analyze_trend, for a series with MACD present, the MACD rule
\* appends BUY exactly when the MACD line is > 0, SELL exactly when it is
\* < 0, and nothing exactly when it is 0: the comparison with the signal
\* line decides nothing.
C23_MacdSignalIsSignOfMacdLine ==
    (MacdRuleDone /\ macd_data # None) =>
        /\ MacdSignals = <<Signal("BUY", "MEDIUM", "MACD")>>
              <=> RLt(Rat(0, 1), macd_data.macd)
        /\ MacdSignals = <<Signal("SELL", "MEDIUM", "MACD")>>
              <=> RLt(macd_data.macd, Rat(0, 1))
        /\ MacdSignals = <<>> <=> macd_data.macd = Rat(0, 1)

\* A returned result with a positive MACD line and the MACD BUY signal.
C23_Witness ==
    /\ ReturnedResult
    /\ macd_data # None
    /\ RLt(Rat(0, 1), macd_data.macd)
    /\ \E i \in 1..Len(result.signals) :
          result.signals[i] = Signal("BUY", "MEDIUM", "MACD")

-----------------------------------------------------------------------------
(* Claims about the bundle and the trend of one analysis, checked under     *)
(* SpecAnalyze.                                                             *)

\* The returned bundle holds the signal sg.
Returned(sg) ==
    \E i \in 1..Len(result.signals) : result.signals[i] = sg

\* C24: in a result returned by analyze_trend, the moving-average BUY signal
\* comes with the trend BULLISH and the moving-average SELL signal with the
\* trend BEARISH, and the bundle never holds both.
C24_MovingAverageSignalAgreesWithTrend ==
    ReturnedResult =>
        /\ Returned(Signal("BUY", "MEDIUM", "SMA_TREND")) => result.trend = "BULLISH"
        /\ Returned(Signal("SELL", "MEDIUM", "SMA_TREND")) => result.trend = "BEARISH"
        /\ ~(Returned(Signal("BUY", "MEDIUM", "SMA_TREND")) /\
              Returned(Signal("SELL", "MEDIUM", "SMA_TREND")))

\* A result with the moving-average SELL signal and the trend BEARISH, whose
\* last 5 closes are less than 1% below the 5 before.
C24_Witness ==
    /\ ReturnedResult
    /\ Returned(Signal("SELL", "MEDIUM", "SMA_TREND"))
    /\ result.trend = "BEARISH"
    /\ MomentumTrend(closes) = "SIDEWAYS"

-----------------------------------------------------------------------------
(* Claims about the momentum rule, checked under SpecSig. *)

\* The MOMENTUM signals of the bundle.
MomentumSignals == SelectSeq(signals, LAMBDA sg : sg.indicator = "MOMENTUM")

\* The last close lies more than k percent above (below, for a negative k)
\* the previous close, for a positive previous close.
ChangeAbove(k) == 100 * (CurrentPrice - PrevPrice) > k * PrevPrice

ChangeBelow(k) == 100 * (CurrentPrice - PrevPrice) < k * PrevPrice

\* C25: in a returned bundle (at least two closes, the previous one
\* positive) there is a MOMENTUM signal exactly when the last close differs
\* from the previous one by more than 2%; it is the one last element, BUY
\* above +3%, SELL below -3%, else HOLD.  In every state HOLD comes from the
\* momentum rule only and the bundle holds at most 5 signals.
C25_MomentumRuleIsFifthAndLast ==
    /\ Len(signals) <= 5
    /\ \A i \in 1..Len(signals) :
          signals[i].type = "HOLD" => signals[i].indicator = "MOMENTUM"
    /\ (RulesEvaluated /\ PrevPrice > 0) =>
          /\ MomentumSignals # <<>> <=> (ChangeAbove(2) \/ ChangeBelow(-2))
          /\ MomentumSignals # <<>> =>
                /\ Len(MomentumSignals) = 1
                /\ signals[Len(signals)] = MomentumSignals[1]
                /\ MomentumSignals[1].type =
                      IF ChangeAbove(3) THEN "BUY"
                      ELSE IF ChangeBelow(-3) THEN "SELL"
                      ELSE "HOLD"

\* A bundle of 5 signals whose last one is the HOLD of a rise of exactly 3%.
C25_Witness ==
    /\ RulesEvaluated
    /\ Len(signals) = 5
    /\ 100 * (CurrentPrice - PrevPrice) = 3 * PrevPrice
    /\ signals[5] = Signal("HOLD", "MEDIUM", "MOMENTUM")

-----------------------------------------------------------------------------
(* Claims about calculate_optimal_position_size, checked under SpecSize. *)

\* floor(0.20 * portfolio_value / entry_price) >= 1: a whole share fits
\* under the 20% cap.
WholeShareFits ==
    /\ entry_price > 0
    /\ risk_profile.portfolio_value >= 5 * entry_price

\* C26: for every entry # stop the call returns a size r >= 1, and
\* r * entry <= 0.20 * portfolio_value whenever a whole share fits under the
\* cap.
C26_SizeAtLeastOneAndCapped ==
    (sizePc # "call" /\ entry_price # stop_loss) =>
        /\ sizePc = "returned"
        /\ position_size.shares >= 1
        /\ WholeShareFits =>
              5 * position_size.shares * entry_price <= risk_profile.portfolio_value

-----------------------------------------------------------------------------
(* Claims about authenticate_with_retry, checked under SpecAuth. *)

\* The order of the codes: current, -30 s, +30 s, -60 s, +60 s.
ClaimedTotpOrder == <<0, -30, 30, -60, 60>>

\* C27: a call sends at most 5 login requests, with the codes in the order
\* current, -30 s, +30 s, -60 s, +60 s; no request follows an accepted login
\* or a rejection that does not mention TOTP; and a call that returns
\* failure after anything else has used all 5 codes.
C27_AtMostFiveLoginsInFixedOrder ==
    /\ Len(login_log) <= 5
    /\ \A i \in 1..Len(login_log) : login_log[i].totp = ClaimedTotpOrder[i]
    /\ \A i \in 1..(Len(login_log) - 1) :
          /\ login_log[i].reply \notin AcceptedReplies
          /\ login_log[i].reply # "rejected_other"
    /\ (authPc = "returned" /\ totp_codes # <<>>) =>
          \/ auth_result.success
                /\ login_log[Len(login_log)].reply \in AcceptedReplies
          \/ ~auth_result.success
                /\ login_log[Len(login_log)].reply = "rejected_other"
          \/ ~auth_result.success /\ Len(login_log) = 5

\* C28: a call that returns success == False leaves access_token,
\* refresh_token and feed_token as they were before the call.
C28_FailureLeavesTokensUnchanged ==
    (authPc = "returned" /\ ~auth_result.success) =>
        <<access_token, refresh_token, feed_token>> = tokens_before

-----------------------------------------------------------------------------
(* Claims about get_live_market_data, checked under SpecLtp. *)

\* A token was stored when the call started.
TokenStoredBefore == TokenSet(tokens_before[1])

\* C29: every market-data request is sent with access_token set and for a
\* symbol whose token was found; with a token stored the call never
\* authenticates; without one it authenticates (once) before any request,
\* and when that fails it returns the failure and sends no request.
C29_NoMarketDataRequestWithoutSession ==
    /\ \A i \in 1..Len(ltp_log) :
          /\ ltp_log[i].authorization # None
          /\ ltp_log[i].symbol \in KnownSymbols
    /\ TokenStoredBefore => (auth_calls = 0 /\ login_log = <<>>)
    /\ (~TokenStoredBefore /\ ltp_log # <<>>) =>
          (auth_calls = 1 /\ auth_result # None /\ auth_result.success)
    /\ (ltpPc = "returned" /\ auth_calls > 0 /\ ~auth_result.success) =>
          (ltp_result = auth_result /\ ltp_log = <<>>)

-----------------------------------------------------------------------------
(* Claims about get_multiple_ltp, checked under SpecMulti. *)

\* The call is past its authentication step: a token was stored, or its own
\* authenticate() returned success.
MultiAuthenticated ==
    multi_auth_result = None \/ multi_auth_result.success

\* The symbols for which an individual fetch succeeded.
FetchedSymbols ==
    {fetch_log[i].symbol : i \in {j \in 1..Len(fetch_log) : fetch_log[j].success}}

\* C30: once authenticated, get_multiple_ltp returns success for every list
\* of symbols; the keys of data are exactly the symbols whose fetch
\* succeeded, each with the data of a successful fetch and never an error;
\* count is the number of keys; and every symbol of the list was fetched, in
\* order, whatever happened to the ones before it.
C30_BatchLtpKeepsSuccessesOnly ==
    (multiPc = "returned" /\ MultiAuthenticated) =>
        /\ multi_result.success
        /\ DOMAIN multi_result.data = FetchedSymbols
        /\ multi_result.count = Cardinality(FetchedSymbols)
        /\ \A s \in DOMAIN multi_result.data :
              multi_result.data[s] = LtpSuccess(s).data
        /\ Len(fetch_log) = Len(ltp_symbols)
        /\ \A i \in 1..Len(fetch_log) : fetch_log[i].symbol = ltp_symbols[i]

\* A list of three symbols returned with a failed fetch before a successful one.
C30_Witness ==
    /\ multiPc = "returned"
    /\ MultiAuthenticated
    /\ Len(ltp_symbols) = 3
    /\ ~fetch_log[1].success
    /\ fetch_log[2].symbol = "NOSUCH"
    /\ fetch_log[3].success
    /\ multi_result.count = 1

=============================================================================
